---- MODULE Spec2Model ----
(***************************************************************************)
(* Strategic Alliance Builder: the partner matcher (PartnerMatcher) and    *)
(* the ROI calculator (ROICalculator), as operations a caller applies to   *)
(* records it supplies.                                                    *)
(*                                                                         *)
(* JavaScript values are modelled as follows.                              *)
(*  - An object is a function from the names of its own properties; a      *)
(*    property that is undefined is not in its DOMAIN.                     *)
(*  - null and undefined arguments are the record Null.                    *)
(*  - The Numbers of the compatibility score are IEEE 754 doubles,         *)
(*    computed bit for bit (FAdd, FMul, FDivInt, MathRound).               *)
(*  - The Numbers of the ROI calculator are whole numbers and exact        *)
(*    fractions (their inputs are whole numbers in this model).            *)
(*  - A call that raises a TypeError returns a value of kind "TypeError".  *)
(***************************************************************************)
EXTENDS Integers, Sequences, FiniteSets, TLC

(***************************************************************************)
(* Precision of the arithmetic below.                                      *)
(***************************************************************************)
\* bits per limb of the big naturals, and limbs of quotient kept before a
\* division is rounded: the results do not depend on either
LimbBits == 14
DivPrec == 5

(***************************************************************************)
(* Evaluation order. JavaScript evaluates an argument once, before the     *)
(* call. The operators below do the same: they bind their arguments as the *)
(* elements of one-element sets and take the one result.                   *)
(***************************************************************************)
The(S) == CHOOSE r \in S : TRUE

(***************************************************************************)
(* Naturals of any size: little-endian sequences of limbs below LimbBase,  *)
(* without a leading zero limb. They carry the 53 bit significands and the *)
(* exact sums and products of doubles.                                     *)
(***************************************************************************)
LimbBase == 2 ^ LimbBits

RECURSIVE BTrim(_)
BTrim(a) ==
    IF a = <<>> THEN a
    ELSE IF a[Len(a)] = 0 THEN BTrim(SubSeq(a, 1, Len(a) - 1)) ELSE a

RECURSIVE BAddC(_, _, _)
BAddC(a, b, c) ==
    IF a = <<>> /\ b = <<>> THEN (IF c = 0 THEN <<>> ELSE <<c>>)
    ELSE LET x == IF a = <<>> THEN 0 ELSE Head(a)
             y == IF b = <<>> THEN 0 ELSE Head(b)
             s == x + y + c
         IN  <<s % LimbBase>> \o BAddC(IF a = <<>> THEN a ELSE Tail(a),
                                       IF b = <<>> THEN b ELSE Tail(b),
                                       s \div LimbBase)
BAdd(a0, b0) == The({(BAddC(a, b, 0)) : a \in {a0}, b \in {b0}})

\* a * s + c for a small s
RECURSIVE BMulSmallC(_, _, _)
BMulSmallC(a, s, c) ==
    IF a = <<>> THEN (IF c = 0 THEN <<>> ELSE <<c>>)
    ELSE LET p == Head(a) * s + c
         IN  <<p % LimbBase>> \o BMulSmallC(Tail(a), s, p \div LimbBase)
BMulSmall(a0, s0) == The({(BMulSmallC(a, s, 0)) : a \in {a0}, s \in {s0}})

RECURSIVE BMul(_, _)
BMul(a0, b0) == The({(
    IF a = <<>> \/ b = <<>> THEN <<>>
    ELSE BAdd(BMulSmall(b, Head(a)), <<0>> \o BMul(Tail(a), b)))
      : a \in {a0}, b \in {b0}})

\* quotient and remainder of a by a small d, from the top limb down
RECURSIVE BDivSmallR(_, _, _, _)
BDivSmallR(a, d, r, q) ==
    IF a = <<>> THEN [q |-> BTrim(q), r |-> r]
    ELSE LET cur == r * LimbBase + a[Len(a)]
         IN  BDivSmallR(SubSeq(a, 1, Len(a) - 1), d, cur % d, <<cur \div d>> \o q)
BDivSmall(a0, d0) == The({(BDivSmallR(a, d, 0, <<>>)) : a \in {a0}, d \in {d0}})

RECURSIVE IntBits(_)
IntBits(n0) == The({(IF n = 0 THEN 0 ELSE 1 + IntBits(n \div 2)) : n \in {n0}})
BBitLen(a0) == The({(
    IF a = <<>> THEN 0 ELSE (Len(a) - 1) * LimbBits + IntBits(a[Len(a)])) : a \in {a0}})

BFromInt(n0) == The({(
    BTrim(<<n % LimbBase, (n \div LimbBase) % LimbBase, n \div (LimbBase * LimbBase)>>))
      : n \in {n0}})
RECURSIVE BToInt(_)
BToInt(a0) == The({(
    IF a = <<>> THEN 0 ELSE Head(a) + LimbBase * BToInt(Tail(a))) : a \in {a0}})

\* a * 2^k
BShl(a0, k0) == The({(
    IF a = <<>> THEN a
    ELSE [i \in 1..(k \div LimbBits) |-> 0] \o BMulSmall(a, 2 ^ (k % LimbBits)))
      : a \in {a0}, k \in {k0}})
\* floor(a / 2^k)
BShr(a0, k0) == The({(
    IF k \div LimbBits >= Len(a) THEN <<>>
    ELSE BDivSmall(SubSeq(a, (k \div LimbBits) + 1, Len(a)), 2 ^ (k % LimbBits)).q)
      : a \in {a0}, k \in {k0}})
\* a mod 2^k is not 0
BLowNonzero(a0, k0) == The({(
    \/ \E i \in 1..Len(a) : i <= k \div LimbBits /\ a[i] # 0
    \/ k \div LimbBits < Len(a) /\ a[(k \div LimbBits) + 1] % (2 ^ (k % LimbBits)) # 0)
      : a \in {a0}, k \in {k0}})
BOdd(a0) == The({(a # <<>> /\ a[1] % 2 = 1) : a \in {a0}})

(***************************************************************************)
(* IEEE 754 binary64, the non-negative finite values: m * 2^e with         *)
(* 2^52 <= m < 2^53, or m = 0. Every operation rounds its exact result to  *)
(* the nearest double, ties to even.                                       *)
(***************************************************************************)
\* bits of a double's significand
MantBits == 53
FZero == [m |-> <<>>, e |-> 0]

\* q * 2^e for a q of at most MantBits + 1 bits
FRenorm(q0, e0) == The({(
    IF BBitLen(q) > MantBits THEN [m |-> BShr(q, 1), e |-> e + 1] ELSE [m |-> q, e |-> e])
      : q \in {q0}, e \in {e0}})
\* n * 2^e with the low k bits of n rounded away
FRoundOff(n0, k0, e0) == The({(
    The({(
        FRenorm(IF BOdd(BShr(n, k - 1)) /\ (BLowNonzero(n, k - 1) \/ BOdd(q))
                THEN BAdd(q, <<1>>) ELSE q,
                e + k)) : q \in {BShr(n, k)}})) : n \in {n0}, k \in {k0}, e \in {e0}})
\* the double nearest to n * 2^e
FRound(n0, e0) == The({(
    IF L = 0 THEN FZero
    ELSE IF L <= MantBits THEN [m |-> BShl(n, MantBits - L), e |-> e - (MantBits - L)]
    ELSE FRoundOff(n, L - MantBits, e)) : n \in {n0}, e \in {e0}, L \in {BBitLen(n0)}})

\* x + y
FAdd(x0, y0) == The({(
    IF x.m = <<>> THEN y
    ELSE IF y.m = <<>> THEN x
    ELSE IF x.e >= y.e THEN FRound(BAdd(BShl(x.m, x.e - y.e), y.m), y.e)
    ELSE FRound(BAdd(BShl(y.m, y.e - x.e), x.m), x.e)) : x \in {x0}, y \in {y0}})
\* x * y
FMul(x0, y0) == The({(
    IF x.m = <<>> \/ y.m = <<>> THEN FZero ELSE FRound(BMul(x.m, y.m), x.e + y.e))
      : x \in {x0}, y \in {y0}})
\* the Number n
FInt(n) == FRound(BFromInt(n), 0)
\* n / d for whole numbers n >= 0 and d > 0; also the decimal literal n/d
FDivInt(n0, d0) == The({(
    The({(
        FRound(IF x.r = 0 THEN BShl(x.q, 1) ELSE BAdd(BShl(x.q, 1), <<1>>),
               -(DivPrec * LimbBits) - 1))
          : x \in {BDivSmall(BShl(BFromInt(n), DivPrec * LimbBits), d)}}))
      : n \in {n0}, d \in {d0}})
\* Math.round(x) = floor(x + 1/2), for x below 2^31
MathRound(x0) == The({(
    IF x.m = <<>> THEN 0
    ELSE IF x.e >= 0 THEN BToInt(BShl(x.m, x.e))
    ELSE (BToInt(BShr(x.m, -x.e - 1)) + 1) \div 2) : x \in {x0}})

(***************************************************************************)
(* JavaScript values                                                       *)
(***************************************************************************)
Null == [null |-> TRUE]
IsNull(x) == "null" \in DOMAIN x

\* obj.name as an option: <<>> when the property is undefined, <<value>> otherwise
Prop(obj, name) == IF name \in DOMAIN obj THEN <<obj[name]>> ELSE <<>>
\* !s for a string-valued option
Falsy(s) == s = <<>> \/ s[1] = ""

\* a Number that is a double, NaN, a function object met where a Number was
\* expected, or the TypeError a call raised instead of returning
Num(d) == [kind |-> "number", num |-> d]
NaN == [kind |-> "NaN", num |-> FZero]
FunctionObject == [kind |-> "function", num |-> FZero]
TypeError == [kind |-> "TypeError", num |-> FZero]
\* x * w and x + y: anything but two Numbers gives NaN
JMul(x0, w0) == The({(
    IF x.kind = "number" THEN Num(FMul(x.num, w)) ELSE NaN) : x \in {x0}, w \in {w0}})
JAdd(x0, y0) == The({(
    IF x.kind = "number" /\ y.kind = "number" THEN Num(FAdd(x.num, y.num)) ELSE NaN)
      : x \in {x0}, y \in {y0}})
\* Math.round(x * 100) as a whole number, or NaN
RoundPercent(x0) == The({(
    IF x.kind = "number" THEN [kind |-> "number", val |-> MathRound(FMul(x.num, FInt(100)))]
    ELSE [kind |-> "NaN", val |-> 0]) : x \in {x0}})

\* the decimal literal t/10
Dec(t) == FDivInt(t, 10)

\* names every object literal inherits from Object.prototype
ObjectPrototypeKeys == {"constructor", "toString", "valueOf", "hasOwnProperty"}
\* table[key] of an object literal: "own" with the value, "inherited" (a function
\* object of Object.prototype) or "undefined"
Lookup(table, key) ==
    IF key \in DOMAIN table THEN [kind |-> "own", v |-> table[key]]
    ELSE IF key \in ObjectPrototypeKeys THEN [kind |-> "inherited", v |-> <<>>]
    ELSE [kind |-> "undefined", v |-> <<>>]

Includes(arr, v) == \E i \in 1..Len(arr) : arr[i] = v

\* array.filter(item => other.includes(item)).length
RECURSIVE CountIn(_, _)
CountIn(arr, other) ==
    IF arr = <<>> THEN 0
    ELSE (IF Includes(other, Head(arr)) THEN 1 ELSE 0) + CountIn(Tail(arr), other)

\* Math.min of whole numbers
Min(a, b) == IF a <= b THEN a ELSE b

\* the elements of seq whose index satisfies keep, in order
RECURSIVE SelectIdx(_, _, _)
SelectIdx(seq, keep, i) ==
    IF i > Len(seq) THEN <<>>
    ELSE (IF keep[i] THEN <<seq[i]>> ELSE <<>>) \o SelectIdx(seq, keep, i + 1)

(***************************************************************************)
(* PartnerMatcher                                                          *)
(***************************************************************************)
weights ==
    [industry    |-> FDivInt(20, 100),
     values      |-> FDivInt(25, 100),
     objectives  |-> FDivInt(25, 100),
     geography   |-> FDivInt(15, 100),
     companySize |-> FDivInt(15, 100)]

complementaryIndustries ==
    [sports        |-> <<"entertainment", "healthcare", "retail">>,
     entertainment |-> <<"sports", "technology", "retail">>,
     technology    |-> <<"entertainment", "financial", "healthcare">>,
     retail        |-> <<"sports", "entertainment", "food">>,
     financial     |-> <<"technology", "education">>,
     healthcare    |-> <<"sports", "technology", "education">>,
     education     |-> <<"technology", "healthcare", "financial">>,
     food          |-> <<"retail", "healthcare">>,
     automotive    |-> <<"technology", "retail">>]

\* calculateIndustryScore without its direct match: equal industries are
\* looked up in the table like any other pair
calculateIndustryScore_noDirectMatch(industry1, industry2) ==
    IF Falsy(industry1) \/ Falsy(industry2) THEN Num(FZero)
    ELSE LET row == Lookup(complementaryIndustries, industry1[1])
         IN  IF row.kind = "inherited" THEN TypeError
             ELSE IF row.kind = "own" /\ Includes(row.v, industry2[1]) THEN Num(Dec(7))
             ELSE Num(Dec(3))

\* complementaryIndustries[industry1].includes is not a function when the row
\* is inherited from Object.prototype
calculateIndustryScore(industry1, industry2) ==
    IF Falsy(industry1) \/ Falsy(industry2) THEN Num(FZero)
    ELSE IF industry1[1] = industry2[1] THEN Num(FInt(1))
    ELSE LET row == Lookup(complementaryIndustries, industry1[1])
         IN  IF row.kind = "inherited" THEN TypeError
             ELSE IF row.kind = "own" /\ Includes(row.v, industry2[1]) THEN Num(Dec(7))
             ELSE Num(Dec(3))

calculateValuesScore(values1, values2) ==
    IF values1 = <<>> \/ values2 = <<>> \/ Len(values1[1]) = 0 \/ Len(values2[1]) = 0
    THEN Num(FZero)
    ELSE Num(FDivInt(CountIn(values1[1], values2[1]),
                     Min(Len(values1[1]), Len(values2[1]))))

calculateObjectivesScore(objectives1, objectives2) ==
    IF objectives1 = <<>> \/ objectives2 = <<>>
       \/ Len(objectives1[1]) = 0 \/ Len(objectives2[1]) = 0
    THEN Num(FZero)
    ELSE Num(FDivInt(CountIn(objectives1[1], objectives2[1]),
                     Min(Len(objectives1[1]), Len(objectives2[1]))))

\* the entries of both matrices are written in tenths
geographyMatrix ==
    [local         |-> [local |-> 10, regional |-> 8, national |-> 4,
                        international |-> 2, global |-> 1],
     regional      |-> [local |-> 8, regional |-> 10, national |-> 7,
                        international |-> 3, global |-> 2],
     national      |-> [local |-> 4, regional |-> 7, national |-> 10,
                        international |-> 7, global |-> 5],
     international |-> [local |-> 2, regional |-> 3, national |-> 7,
                        international |-> 10, global |-> 8],
     global        |-> [local |-> 1, regional |-> 2, national |-> 5,
                        international |-> 8, global |-> 10]]

sizeMatrix ==
    [startup    |-> [startup |-> 10, small |-> 9, medium |-> 6,
                     large |-> 4, enterprise |-> 2],
     small      |-> [startup |-> 9, small |-> 10, medium |-> 8,
                     large |-> 5, enterprise |-> 3],
     medium     |-> [startup |-> 6, small |-> 8, medium |-> 10,
                     large |-> 8, enterprise |-> 6],
     large      |-> [startup |-> 4, small |-> 5, medium |-> 8,
                     large |-> 10, enterprise |-> 9],
     enterprise |-> [startup |-> 2, small |-> 3, medium |-> 6,
                     large |-> 9, enterprise |-> 10]]

\* matrix[k1] && matrix[k1][k2] ? matrix[k1][k2] : fallback. A row that is own
\* has the entry, inherits it (a function object, truthy) or lacks it; the
\* inherited row Object.prototype[k1] is a function without the property k2
\* (k2 differs from k1 here, and the function's own properties are not inputs).
MatrixScore(matrix, k1, k2, fallback) ==
    LET row == Lookup(matrix, k1)
    IN  IF row.kind = "own"
        THEN LET cell == Lookup(row.v, k2)
             IN  IF cell.kind = "own" THEN Num(Dec(cell.v))
                 ELSE IF cell.kind = "inherited" THEN FunctionObject
                 ELSE Num(Dec(fallback))
        ELSE Num(Dec(fallback))

calculateGeographyScore(geography1, geography2) ==
    IF Falsy(geography1) \/ Falsy(geography2) THEN Num(FZero)
    ELSE IF geography1[1] = geography2[1] THEN Num(FInt(1))
    ELSE MatrixScore(geographyMatrix, geography1[1], geography2[1], 3)

calculateSizeScore(size1, size2) ==
    IF Falsy(size1) \/ Falsy(size2) THEN Num(FZero)
    ELSE IF size1[1] = size2[1] THEN Num(FInt(1))
    ELSE MatrixScore(sizeMatrix, size1[1], size2[1], 5)

\* brand.partnership?.objectives || []
ObjectivesOrEmpty(brand) ==
    IF "partnership" \in DOMAIN brand /\ "objectives" \in DOMAIN brand.partnership
    THEN <<brand.partnership.objectives>>
    ELSE << <<>> >>

\* the five sub-scores of a pair of profiles, in the order the code calls them
SubScores(brand1, brand2) ==
    <<calculateIndustryScore(Prop(brand1, "industry"), Prop(brand2, "industry")),
      calculateValuesScore(Prop(brand1, "values"), Prop(brand2, "values")),
      calculateObjectivesScore(ObjectivesOrEmpty(brand1), ObjectivesOrEmpty(brand2)),
      calculateGeographyScore(Prop(brand1, "geographicFocus"), Prop(brand2, "geographicFocus")),
      calculateSizeScore(Prop(brand1, "companySize"), Prop(brand2, "companySize"))>>

\* totalScore after the five "totalScore += subScore * weight", rounded to a
\* percentage; a TypeError of the industry lookup leaves the function
WeightedPercent(scores0) == The({(
    IF scores[1].kind = "TypeError" THEN [kind |-> "TypeError", val |-> 0]
    ELSE LET t1 == JAdd(Num(FZero), JMul(scores[1], weights.industry))
             t2 == JAdd(t1, JMul(scores[2], weights.values))
             t3 == JAdd(t2, JMul(scores[3], weights.objectives))
             t4 == JAdd(t3, JMul(scores[4], weights.geography))
             t5 == JAdd(t4, JMul(scores[5], weights.companySize))
         IN  RoundPercent(t5)) : scores \in {scores0}})

\* calculateCompatibilityScore without its guard on brand2: reading a property
\* of null raises a TypeError
calculateCompatibilityScore_brand2Unchecked(brand1, brand2) ==
    IF IsNull(brand1) THEN [kind |-> "number", val |-> 0]
    ELSE IF IsNull(brand2) THEN [kind |-> "TypeError", val |-> 0]
    ELSE WeightedPercent(SubScores(brand1, brand2))

calculateCompatibilityScore(brand1, brand2) ==
    IF IsNull(brand1) \/ IsNull(brand2) THEN [kind |-> "number", val |-> 0]
    ELSE WeightedPercent(SubScores(brand1, brand2))

\* Math.round(subScore * 100) >= n and < n; false when NaN
AtLeast(x, n) == x.kind = "number" /\ x.val >= n
Below(x, n) == x.kind = "number" /\ x.val < n

\* brand.partnership?.objectives.includes(v) raises a TypeError when the
\* partnership has no objectives, and is undefined when there is no partnership
ChainThrows(brand) ==
    "partnership" \in DOMAIN brand /\ "objectives" \notin DOMAIN brand.partnership
ChainIncludes(brand, v) ==
    /\ "partnership" \in DOMAIN brand
    /\ "objectives" \in DOMAIN brand.partnership
    /\ Includes(brand.partnership.objectives, v)
\* a || b over the two chains: b is only evaluated when a is falsy
EitherThrows(brand, partner, v) ==
    ChainThrows(brand) \/ (~ChainIncludes(brand, v) /\ ChainThrows(partner))
EitherIncludes(brand, partner, v) ==
    ChainIncludes(brand, v) \/ ChainIncludes(partner, v)

dimensionNames ==
    <<"industry alignment", "shared values", "compatible objectives",
      "geographic alignment", "company size compatibility">>
weaknessAdvice ==
    <<"Focus on cross-industry innovation opportunities.",
      "Identify and emphasize the specific values that do align.",
      "Define clear partnership goals that benefit both organizations.",
      "Consider a geographically focused pilot initiative.",
      "Establish clear roles and responsibilities that leverage each organization's strengths.">>
partnershipTypeNames ==
    <<"co-branding", "product development", "content creation", "distribution">>

\* the five Math.round(subScore * 100) of the report
DimensionPercents(brand, partner) ==
    LET s == SubScores(brand, partner) IN [i \in 1..5 |-> RoundPercent(s[i])]

generateCompatibilityReport(brand, partner) ==
    IF IsNull(brand) \/ IsNull(partner) THEN [kind |-> "null"]
    ELSE The({(
         LET strong == [i \in 1..5 |-> AtLeast(d[i], 70)]
             weak   == [i \in 1..5 |-> Below(d[i], 50)]
             types  == <<AtLeast(d[2], 70)
                            /\ Prop(brand, "industry") # Prop(partner, "industry"),
                         AtLeast(d[1], 70) /\ EitherIncludes(brand, partner, "product"),
                         AtLeast(d[3], 70) /\ EitherIncludes(brand, partner, "content"),
                         AtLeast(d[4], 70)
                            /\ Prop(brand, "geographicFocus") # Prop(partner, "geographicFocus")>>
         IN  IF \/ overallScore.kind = "TypeError"
                \/ AtLeast(d[1], 70) /\ EitherThrows(brand, partner, "product")
                \/ AtLeast(d[3], 70) /\ EitherThrows(brand, partner, "content")
             THEN [kind |-> "TypeError"]
             ELSE [kind |-> "object",
                   overallScore |-> overallScore,
                   dimensionScores |-> [industry |-> d[1], values |-> d[2],
                                        objectives |-> d[3], geography |-> d[4],
                                        size |-> d[5]],
                   strengths |-> SelectIdx(dimensionNames, strong, 1),
                   weaknesses |-> SelectIdx(dimensionNames, weak, 1),
                   recommendations |-> SelectIdx(weaknessAdvice, weak, 1),
                   suggestedPartnershipTypes |-> SelectIdx(partnershipTypeNames, types, 1)])
           : overallScore \in {calculateCompatibilityScore(brand, partner)},
             d \in {DimensionPercents(brand, partner)}})

(***************************************************************************)
(* ROICalculator. The fields of its records are whole numbers or absent;   *)
(* "parseFloat(x) || 0" of a Number x is x.                                *)
(***************************************************************************)
\* if (obj.f): the field is present and not 0
Truthy(obj, f) == f \in DOMAIN obj /\ obj[f] # 0
\* the addend "if (obj.f) total += obj.f * w"
Points(obj, f, w) == IF Truthy(obj, f) THEN obj[f] * w ELSE 0
\* the addend "if (obj.f && obj.g) total += obj.f * obj.g"
Product(obj, f, g) == IF Truthy(obj, f) /\ Truthy(obj, g) THEN obj[f] * obj[g] ELSE 0
\* obj.f passed as an argument: Null when undefined
Arg(obj, f) == IF f \in DOMAIN obj THEN obj[f] ELSE Null
\* Math.round(n / d) for d > 0: the nearest whole number, halves upwards
Round(n, d) == (2 * n + d) \div (2 * d)
\* the exact fraction n / d, d > 0
Frac(n, d) == [n |-> n, d |-> d]
\* x > k for a fraction x
Greater(x, k) == x.n > k * x.d

calculateTotalInvestment(investment) ==
    Points(investment, "directCosts", 1)
    + Product(investment, "staffHours", "hourlyRate")
    + Points(investment, "resourceAllocation", 1)
    + Points(investment, "marketingCosts", 1)
    + Points(investment, "technologyCosts", 1)
    + Points(investment, "otherCosts", 1)

\* calculateTotalReturns with the monthly cost savings counted once
calculateTotalReturns_savingsOnce(returns, timeframeMonths) ==
    Points(returns, "directRevenue", timeframeMonths)
    + Points(returns, "costSavings", 1)
    + Product(returns, "newCustomers", "customerLTV")
    + Product(returns, "marketShareIncrease", "marketShareValue")
    + Points(returns, "otherReturns", 1)

calculateTotalReturns(returns, timeframeMonths) ==
    Points(returns, "directRevenue", timeframeMonths)
    + Points(returns, "costSavings", timeframeMonths)
    + Product(returns, "newCustomers", "customerLTV")
    + Product(returns, "marketShareIncrease", "marketShareValue")
    + Points(returns, "otherReturns", 1)

\* the metrics record of calculateFinancialROI, past its validation
FinancialMetrics(investment, returns, timeframeMonths) ==
    LET totalInvestment == calculateTotalInvestment(investment)
        totalReturns    == calculateTotalReturns(returns, timeframeMonths)
        netReturn       == totalReturns - totalInvestment
    IN  [kind            |-> "object",
         totalInvestment |-> totalInvestment,
         totalReturns    |-> totalReturns,
         netReturn       |-> netReturn,
         roiPercentage   |-> IF totalInvestment > 0
                             THEN Frac(netReturn * 100, totalInvestment)
                             ELSE Frac(0, 1),
         paybackMonths   |-> IF totalReturns > 0
                             THEN [kind |-> "number",
                                   val |-> Frac(totalInvestment * timeframeMonths, totalReturns)]
                             ELSE [kind |-> "Infinity", val |-> Frac(0, 1)],
         timeframeMonths |-> timeframeMonths]

\* the default parameter "timeframeMonths = 12"; months is <<>> when the
\* argument is undefined
MonthsOrDefault(months) == IF months = <<>> THEN 12 ELSE months[1]

\* calculateFinancialROI validating with "timeframeMonths < 0"
calculateFinancialROI_zeroMonthsAccepted(investment, returns, months) ==
    IF IsNull(investment) \/ IsNull(returns) \/ MonthsOrDefault(months) < 0
    THEN [kind |-> "null"]
    ELSE FinancialMetrics(investment, returns, MonthsOrDefault(months))

calculateFinancialROI(investment, returns, months) ==
    IF IsNull(investment) \/ IsNull(returns) \/ MonthsOrDefault(months) <= 0
    THEN [kind |-> "null"]
    ELSE FinancialMetrics(investment, returns, MonthsOrDefault(months))

\* (100 - overlap) * 0.2 and visibility * 0.2 are fifths: the scores are
\* summed in fifths and rounded once, as Math.round(score) does
calculateAudienceScore(partnership) ==
    LET reach == IF Truthy(partnership, "audienceReach")
                 THEN Min(30, partnership.audienceReach) * 2 ELSE 0
        overlapFifths == IF "audienceOverlap" \in DOMAIN partnership
                         THEN 100 - partnership.audienceOverlap ELSE 0
        engagement == Points(partnership, "audienceEngagement", 4)
    IN  Min(100, Round(5 * reach + overlapFifths + 5 * engagement, 5))

calculateBrandScore(partnership) ==
    Min(100, Round(5 * Points(partnership, "brandAlignment", 10)
                   + 5 * Points(partnership, "reputationEnhancement", 6)
                   + Points(partnership, "brandVisibility", 1), 5))

calculateInnovationScore(partnership) ==
    Min(100, Round(Points(partnership, "innovationPotential", 10)
                   + Points(partnership, "technologyAccess", 6)
                   + Points(partnership, "ipCreation", 4), 1))

calculateMarketAccessScore(partnership) ==
    Min(100, Round(Points(partnership, "newMarketAccess", 10)
                   + Points(partnership, "channelExpansion", 6)
                   + Points(partnership, "competitiveAdvantage", 4), 1))

calculateRelationshipScore(partnership) ==
    Min(100, Round(Points(partnership, "strategicAlignment", 10)
                   + Points(partnership, "longTermPotential", 8)
                   + Points(partnership, "ecosystemIntegration", 2), 1))

calculateStrategicValue(partnership) ==
    IF IsNull(partnership) THEN [kind |-> "null"]
    ELSE LET audienceScore     == calculateAudienceScore(partnership)
             brandScore        == calculateBrandScore(partnership)
             innovationScore   == calculateInnovationScore(partnership)
             marketAccessScore == calculateMarketAccessScore(partnership)
             relationshipScore == calculateRelationshipScore(partnership)
         IN  [kind |-> "object",
              overallScore |-> Round(audienceScore + brandScore + innovationScore
                                     + marketAccessScore + relationshipScore, 5),
              dimensionScores |-> [audience |-> audienceScore, brand |-> brandScore,
                                   innovation |-> innovationScore,
                                   marketAccess |-> marketAccessScore,
                                   relationship |-> relationshipScore]]

\* calculateFinancialRisk with the cost overrun risk lowering the score
calculateFinancialRisk_overrunLowers(partnership) ==
    Min(100, Round(Points(partnership, "investmentSize", 10)
                   + Points(partnership, "revenueUncertainty", 6)
                   - Points(partnership, "costOverrunRisk", 4), 1))

calculateFinancialRisk(partnership) ==
    Min(100, Round(Points(partnership, "investmentSize", 10)
                   + Points(partnership, "revenueUncertainty", 6)
                   + Points(partnership, "costOverrunRisk", 4), 1))

calculateReputationRisk(partnership) ==
    Min(100, Round(Points(partnership, "partnerReputationRisk", 12)
                   + Points(partnership, "brandAlignmentRisk", 8), 1))

calculateOperationalRisk(partnership) ==
    Min(100, Round(Points(partnership, "integrationComplexity", 10)
                   + Points(partnership, "resourceConflictRisk", 6)
                   + Points(partnership, "timelineRisk", 4), 1))

calculateStrategicRisk(partnership) ==
    Min(100, Round(Points(partnership, "goalMisalignmentRisk", 10)
                   + Points(partnership, "dependencyRisk", 8)
                   + Points(partnership, "competitiveDisclosureRisk", 2), 1))

\* the two recommendations of a risk score of at least 60, and of at least 30
highRiskAdvice ==
    [financialRisk |->
        <<"Implement phased investment approach with clear go/no-go decision points.",
          "Establish detailed financial monitoring with regular review intervals.">>,
     reputationRisk |->
        <<"Conduct thorough reputation due diligence before finalizing the partnership.",
          "Create a comprehensive crisis communication plan.">>,
     operationalRisk |->
        <<"Appoint dedicated integration managers from both organizations.",
          "Develop detailed implementation roadmap with clear dependencies and critical path.">>,
     strategicRisk |->
        <<"Define a detailed exit strategy before partnership launch.",
          "Implement formal quarterly strategic alignment reviews.">>]
moderateRiskAdvice ==
    [financialRisk |->
        <<"Set clear financial metrics and performance indicators.",
          "Include contingency funding in the partnership budget.">>,
     reputationRisk |->
        <<"Define brand usage guidelines for the partnership.",
          "Implement a media monitoring system for early risk detection.">>,
     operationalRisk |->
        <<"Establish a joint steering committee for operational oversight.",
          "Create clear escalation paths for operational issues.">>,
     strategicRisk |->
        <<"Document shared strategic objectives with measurable outcomes.",
          "Define clear intellectual property rights and usage agreements.">>]

\* RiskAdvice with the moderate advice starting above 30
RiskAdvice_above30(riskScores, name) ==
    IF riskScores[name] >= 60 THEN highRiskAdvice[name]
    ELSE IF riskScores[name] > 30 THEN moderateRiskAdvice[name]
    ELSE <<>>

RiskAdvice(riskScores, name) ==
    IF riskScores[name] >= 60 THEN highRiskAdvice[name]
    ELSE IF riskScores[name] >= 30 THEN moderateRiskAdvice[name]
    ELSE <<>>

generateRiskMitigationRecommendations(riskScores) ==
    RiskAdvice(riskScores, "financialRisk") \o RiskAdvice(riskScores, "reputationRisk")
    \o RiskAdvice(riskScores, "operationalRisk") \o RiskAdvice(riskScores, "strategicRisk")

RiskLevel(overallRisk) ==
    IF overallRisk < 25 THEN "Low"
    ELSE IF overallRisk < 50 THEN "Moderate"
    ELSE IF overallRisk < 75 THEN "High"
    ELSE "Critical"

calculateRiskAssessment(partnership) ==
    IF IsNull(partnership) THEN [kind |-> "null"]
    ELSE LET financialRisk   == calculateFinancialRisk(partnership)
             reputationRisk  == calculateReputationRisk(partnership)
             operationalRisk == calculateOperationalRisk(partnership)
             strategicRisk   == calculateStrategicRisk(partnership)
             overallRisk     == Round(financialRisk + reputationRisk
                                      + operationalRisk + strategicRisk, 4)
         IN  [kind |-> "object",
              overallRisk |-> overallRisk,
              riskLevel |-> RiskLevel(overallRisk),
              riskScores |-> [financial |-> financialRisk, reputation |-> reputationRisk,
                              operational |-> operationalRisk, strategic |-> strategicRisk],
              recommendations |-> generateRiskMitigationRecommendations(
                  [financialRisk |-> financialRisk, reputationRisk |-> reputationRisk,
                   operationalRisk |-> operationalRisk, strategicRisk |-> strategicRisk])]

\* the financial component with ">=" in place of each ">"
FinancialComponent_inclusive(roiPercentage) ==
    IF roiPercentage.n >= 200 * roiPercentage.d THEN 40
    ELSE IF roiPercentage.n >= 100 * roiPercentage.d THEN 30
    ELSE IF roiPercentage.n >= 50 * roiPercentage.d THEN 20
    ELSE IF roiPercentage.n >= 0 THEN 10
    ELSE 0

\* the financial component of the overall score
FinancialComponent(roiPercentage) ==
    IF Greater(roiPercentage, 200) THEN 40
    ELSE IF Greater(roiPercentage, 100) THEN 30
    ELSE IF Greater(roiPercentage, 50) THEN 20
    ELSE IF Greater(roiPercentage, 0) THEN 10
    ELSE 0

Recommendation(overallScore) ==
    IF overallScore >= 80 THEN "Strongly Recommended"
    ELSE IF overallScore >= 60 THEN "Recommended"
    ELSE IF overallScore >= 40 THEN "Consider with Modifications"
    ELSE "Not Recommended"

\* partnership.timeframeMonths || 12
TimeframeOr12(partnership) ==
    IF Truthy(partnership, "timeframeMonths") THEN <<partnership.timeframeMonths>> ELSE <<12>>

\* reading financialROI.roiPercentage raises a TypeError when financialROI is
\* null. x * 0.4 and y * 0.2 are fifths: the score is summed in fifths and
\* rounded once, as Math.round(overallScore) does
calculatePartnershipROI(partnership) ==
    IF IsNull(partnership) THEN [kind |-> "null"]
    ELSE LET financialROI   == calculateFinancialROI(Arg(partnership, "investment"),
                                                     Arg(partnership, "returns"),
                                                     TimeframeOr12(partnership))
             strategicValue == calculateStrategicValue(partnership)
             riskAssessment == calculateRiskAssessment(partnership)
         IN  IF financialROI.kind = "null" THEN [kind |-> "TypeError"]
             ELSE LET overallScore ==
                          Round(5 * FinancialComponent(financialROI.roiPercentage)
                                + 2 * strategicValue.overallScore
                                + (100 - riskAssessment.overallRisk), 5)
                  IN  [kind |-> "object",
                       overallScore |-> overallScore,
                       recommendation |-> Recommendation(overallScore),
                       financialROI |-> financialROI,
                       strategicValue |-> strategicValue,
                       riskAssessment |-> riskAssessment]

(***************************************************************************)
(* src/js/data.js, ProjectManager: the progress of a collaboration.        *)
(* An array is the record [array |-> <<items>>]; any other argument is     *)
(* Null. Dates are whole days (a date string parses to midnight) and the   *)
(* current time is counted in half days.                                   *)
(***************************************************************************)
Array(items) == [array |-> items]
IsArray(x) == "array" \in DOMAIN x

\* list.filter(item => item.status === s).length
CountStatus(items, s) ==
    Cardinality({i \in DOMAIN items : Prop(items[i], "status") = <<s>>})

\* Math.round(((n / 2) / total) * 100) for whole numbers n >= 0 and total > 0:
\* n / 2 is exact, so the quotient is the double nearest to n / (2 * total)
RoundHalvesPercent(n, total) == MathRound(FMul(FDivInt(n, 2 * total), FInt(100)))

calculateTaskProgress(tasks) ==
    IF ~IsArray(tasks)
    THEN [total |-> 0, completed |-> 0, inProgress |-> 0, pending |-> 0,
          progressPercentage |-> 0]
    ELSE LET total == Len(tasks.array)
             completed == CountStatus(tasks.array, "completed")
             inProgress == CountStatus(tasks.array, "in-progress")
         IN  [total |-> total,
              completed |-> completed,
              inProgress |-> inProgress,
              pending |-> CountStatus(tasks.array, "pending"),
              \* (completed + inProgress * 0.5) is the exact (2c + i) / 2
              progressPercentage |->
                  IF total > 0 THEN RoundHalvesPercent(2 * completed + inProgress, total)
                  ELSE 0]

calculateMilestoneProgress(milestones) ==
    IF ~IsArray(milestones)
    THEN [total |-> 0, completed |-> 0, pending |-> 0, missed |-> 0,
          progressPercentage |-> 0]
    ELSE LET total == Len(milestones.array)
             completed == CountStatus(milestones.array, "completed")
         IN  [total |-> total,
              completed |-> completed,
              pending |-> CountStatus(milestones.array, "pending"),
              missed |-> CountStatus(milestones.array, "missed"),
              progressPercentage |->
                  IF total > 0 THEN MathRound(FMul(FDivInt(completed, total), FInt(100)))
                  ELSE 0]

\* collaboration.f || []
ListOrEmpty(collaboration, f) ==
    IF f \in DOMAIN collaboration THEN collaboration[f] ELSE <<>>

\* WeightedProgress with the two weights exchanged
WeightedProgress_exchanged(taskProgress, wt, milestoneProgress, wm) ==
    MathRound(FAdd(FMul(FInt(taskProgress), Dec(wm)), FMul(FInt(milestoneProgress), Dec(wt))))

\* Math.round(taskProgress * wt + milestoneProgress * wm), the weights in tenths
WeightedProgress(taskProgress, wt, milestoneProgress, wm) ==
    MathRound(FAdd(FMul(FInt(taskProgress), Dec(wt)), FMul(FInt(milestoneProgress), Dec(wm))))

\* Math.ceil(timeDiff / (1000 * 60 * 60 * 24)), the times in half days
DaysRemaining(endDate, now) == -((now - 2 * endDate) \div 2)

Abs(n) == IF n < 0 THEN -n ELSE n
\* Math.round(-x) = -ceil(x - 1/2) for a double x >= 0, as a whole number
MathRoundNegated(x0) == The({(
    IF x.m = <<>> THEN 0
    ELSE IF x.e >= 0 THEN -BToInt(BShl(x.m, x.e))
    ELSE IF BLowNonzero(x.m, -x.e - 1)
         THEN -((BToInt(BShr(x.m, -x.e - 1)) + 1) \div 2)
         ELSE -(BToInt(BShr(x.m, -x.e - 1)) \div 2)) : x \in {x0}})

\* Math.round((elapsedDuration / totalDuration) * 100); startDate is an option
ExpectedProgress(startDate, endDate, daysRemaining) ==
    IF startDate = <<>> THEN [kind |-> "NaN", val |-> 0]
    ELSE LET totalDuration == endDate - startDate[1]
             elapsedDuration == totalDuration - daysRemaining
         IN  IF totalDuration = 0
             THEN [kind |-> IF elapsedDuration > 0 THEN "Infinity"
                            ELSE IF elapsedDuration < 0 THEN "-Infinity" ELSE "NaN",
                   val |-> 0]
             ELSE LET percent == FMul(FDivInt(Abs(elapsedDuration), Abs(totalDuration)),
                                      FInt(100))
                  IN  [kind |-> "number",
                       val |-> IF (elapsedDuration < 0) = (totalDuration < 0)
                               THEN MathRound(percent) ELSE MathRoundNegated(percent)]

\* overallProgress < expectedProgress - margin
BelowExpected(overallProgress, expectedProgress, margin) ==
    CASE expectedProgress.kind = "number" -> overallProgress < expectedProgress.val - margin
      [] expectedProgress.kind = "Infinity" -> TRUE
      [] OTHER -> FALSE

\* ScheduleStatus with the wider margin tested first
ScheduleStatus_widerFirst(overallProgress, expectedProgress) ==
    IF BelowExpected(overallProgress, expectedProgress, 20) THEN "At Risk"
    ELSE IF BelowExpected(overallProgress, expectedProgress, 10) THEN "Behind Schedule"
    ELSE "On Track"

\* the status of a collaboration with a deadline
ScheduleStatus(overallProgress, expectedProgress) ==
    IF BelowExpected(overallProgress, expectedProgress, 10) THEN "Behind Schedule"
    ELSE IF BelowExpected(overallProgress, expectedProgress, 20) THEN "At Risk"
    ELSE "On Track"

\* calculateProgress(collaboration) at the time now; daysRemaining is an
\* option, <<>> for null
calculateProgress(collaboration, now) ==
    IF IsNull(collaboration) THEN Null
    ELSE LET taskStats == calculateTaskProgress(Array(ListOrEmpty(collaboration, "tasks")))
             milestoneStats ==
                 calculateMilestoneProgress(Array(ListOrEmpty(collaboration, "milestones")))
             overallProgress == WeightedProgress(taskStats.progressPercentage, 6,
                                                 milestoneStats.progressPercentage, 4)
             daysRemaining ==
                 IF "endDate" \in DOMAIN collaboration
                 THEN <<DaysRemaining(collaboration.endDate, now)>> ELSE <<>>
         IN  [overallProgress |-> overallProgress,
              status |->
                  IF daysRemaining = <<>> THEN "On Track"
                  ELSE ScheduleStatus(overallProgress,
                                      ExpectedProgress(Prop(collaboration, "startDate"),
                                                       collaboration.endDate,
                                                       daysRemaining[1])),
              daysRemaining |-> daysRemaining,
              taskStats |-> taskStats,
              milestoneStats |-> milestoneStats]

(***************************************************************************)
(* src/js/data.js, ProjectManager: the operations on a collaboration.      *)
(* A collaboration is an object whose list properties refer to arrays:     *)
(* [ref |-> k] is the k-th array of the heap, a sequence of arrays. The    *)
(* spread {...collaboration} copies the references, not the arrays. The    *)
(* operations take the heap, the time t that new Date() gives and the id   *)
(* that generateId() gives, and return the returned object with the heap   *)
(* they leave. A field that holds null holds NoValue.                      *)
(***************************************************************************)
NoValue == "null"
ListFields == {"tasks", "milestones", "documents", "notes"}

\* the properties an add operation copies from its argument, with the values
\* it gives them when the argument's are falsy
itemDefaults ==
    [tasks |-> [title |-> "Untitled Task", description |-> "", assignedTo |-> "",
                dueDate |-> NoValue, status |-> "pending", priority |-> "medium"],
     milestones |-> [title |-> "Untitled Milestone", description |-> "",
                     dueDate |-> NoValue, status |-> "pending"],
     documents |-> [title |-> "Untitled Document", description |-> "", fileType |-> "other",
                    url |-> "", version |-> "1.0", createdBy |-> ""],
     notes |-> [title |-> "Untitled Note", content |-> "", createdBy |-> ""]]

\* obj.f || default, for a property of strings
OrDefault(obj, f, default) == IF f \in DOMAIN obj /\ obj[f] # "" THEN obj[f] ELSE default

\* the object literal newTask / newMilestone / newDocument / newNote
NewItem(list, item, id, t) ==
    [f \in DOMAIN itemDefaults[list] |-> OrDefault(item, f, itemDefaults[list][f])]
    @@ [id |-> OrDefault(item, "id", id),
        createdAt |-> IF "createdAt" \in DOMAIN item THEN item.createdAt ELSE t,
        updatedAt |-> t]

\* ApplyUpdates that protects createdAt only
ApplyUpdates_idUnprotected(record, updates, t) ==
    LET keys == (DOMAIN updates) \ {"createdAt"}
    IN  [f \in DOMAIN record \cup keys \cup {"updatedAt"} |->
            IF f = "updatedAt" THEN t
            ELSE IF f \in keys THEN updates[f] ELSE record[f]]

\* a copy of record with every key of updates but id and createdAt assigned,
\* and then updatedAt set to the current time
ApplyUpdates(record, updates, t) ==
    LET keys == (DOMAIN updates) \ {"id", "createdAt"}
    IN  [f \in DOMAIN record \cup keys \cup {"updatedAt"} |->
            IF f = "updatedAt" THEN t
            ELSE IF f \in keys THEN updates[f] ELSE record[f]]

\* the copy {...collaboration} with its property f and its updatedAt assigned
Assigned(collaboration, f, v, t) ==
    [g \in DOMAIN collaboration \cup {f, "updatedAt"} |->
        IF g = f THEN v ELSE IF g = "updatedAt" THEN t ELSE collaboration[g]]

updateCollaboration(collaboration, updates, t) ==
    IF IsNull(collaboration) \/ IsNull(updates) THEN collaboration
    ELSE ApplyUpdates(collaboration, updates, t)

\* addTask, addMilestone, addDocument, addNote: the new item is pushed onto the
\* array the copy refers to, which is the array of the argument unless the
\* argument had none
AddItem(list, collaboration, item, id, t, arrays) ==
    IF IsNull(collaboration) \/ IsNull(item) THEN [ret |-> collaboration, arrays |-> arrays]
    ELSE LET fresh == list \notin DOMAIN collaboration
             ref == IF fresh THEN Len(arrays) + 1 ELSE collaboration[list].ref
             heap == IF fresh THEN Append(arrays, <<>>) ELSE arrays
         IN  [ret |-> Assigned(collaboration, list, [ref |-> ref], t),
              arrays |-> [heap EXCEPT ![ref] = Append(@, NewItem(list, item, id, t))]]

\* array.findIndex(item => item.id === itemId), 0 for -1
FindIndex(items, itemId) ==
    LET found == {i \in 1..Len(items) : Prop(items[i], "id") = <<itemId>>}
    IN  IF found = {} THEN 0 ELSE CHOOSE i \in found : \A j \in found : i <= j

\* updateTask, updateMilestone, updateDocument, updateNote: the updated copy of
\* the item is stored in the array the copy refers to
UpdateItem(list, collaboration, itemId, updates, t, arrays) ==
    IF IsNull(collaboration) \/ itemId = "" \/ IsNull(updates)
    THEN [ret |-> collaboration, arrays |-> arrays]
    ELSE IF list \notin DOMAIN collaboration THEN [ret |-> collaboration, arrays |-> arrays]
    ELSE LET ref == collaboration[list].ref
             index == FindIndex(arrays[ref], itemId)
         IN  IF index = 0 THEN [ret |-> collaboration, arrays |-> arrays]
             ELSE [ret |-> Assigned(collaboration, list, [ref |-> ref], t),
                   arrays |-> [arrays EXCEPT
                                  ![ref][index] = ApplyUpdates(@, updates, t)]]

\* DeleteItem that removes only the first item with the id
DeleteItem_firstOnly(list, collaboration, itemId, t, arrays) ==
    IF IsNull(collaboration) \/ itemId = "" THEN [ret |-> collaboration, arrays |-> arrays]
    ELSE IF list \notin DOMAIN collaboration THEN [ret |-> collaboration, arrays |-> arrays]
    ELSE LET items == arrays[collaboration[list].ref]
         IN  [ret |-> Assigned(collaboration, list, [ref |-> Len(arrays) + 1], t),
              arrays |-> Append(arrays,
                                SelectIdx(items,
                                          [i \in 1..Len(items) |->
                                              \/ Prop(items[i], "id") # <<itemId>>
                                              \/ \E j \in 1..(i - 1) :
                                                    Prop(items[j], "id") = <<itemId>>], 1))]

\* deleteTask, deleteMilestone, deleteDocument, deleteNote: filter makes a new
\* array
DeleteItem(list, collaboration, itemId, t, arrays) ==
    IF IsNull(collaboration) \/ itemId = "" THEN [ret |-> collaboration, arrays |-> arrays]
    ELSE IF list \notin DOMAIN collaboration THEN [ret |-> collaboration, arrays |-> arrays]
    ELSE LET items == arrays[collaboration[list].ref]
         IN  [ret |-> Assigned(collaboration, list, [ref |-> Len(arrays) + 1], t),
              arrays |-> Append(arrays,
                                SelectIdx(items,
                                          [i \in 1..Len(items) |->
                                              Prop(items[i], "id") # <<itemId>>], 1))]

addTask(collaboration, task, id, t, arrays) ==
    AddItem("tasks", collaboration, task, id, t, arrays)
updateTask(collaboration, taskId, updates, t, arrays) ==
    UpdateItem("tasks", collaboration, taskId, updates, t, arrays)
deleteTask(collaboration, taskId, t, arrays) ==
    DeleteItem("tasks", collaboration, taskId, t, arrays)
addMilestone(collaboration, milestone, id, t, arrays) ==
    AddItem("milestones", collaboration, milestone, id, t, arrays)
updateMilestone(collaboration, milestoneId, updates, t, arrays) ==
    UpdateItem("milestones", collaboration, milestoneId, updates, t, arrays)
deleteMilestone(collaboration, milestoneId, t, arrays) ==
    DeleteItem("milestones", collaboration, milestoneId, t, arrays)
addDocument(collaboration, document, id, t, arrays) ==
    AddItem("documents", collaboration, document, id, t, arrays)
updateDocument(collaboration, documentId, updates, t, arrays) ==
    UpdateItem("documents", collaboration, documentId, updates, t, arrays)
deleteDocument(collaboration, documentId, t, arrays) ==
    DeleteItem("documents", collaboration, documentId, t, arrays)
addNote(collaboration, note, id, t, arrays) ==
    AddItem("notes", collaboration, note, id, t, arrays)
updateNote(collaboration, noteId, updates, t, arrays) ==
    UpdateItem("notes", collaboration, noteId, updates, t, arrays)
deleteNote(collaboration, noteId, t, arrays) ==
    DeleteItem("notes", collaboration, noteId, t, arrays)

\* the object with the contents of the arrays in the place of the references
Contents(collaboration, arrays) ==
    IF IsNull(collaboration) THEN Null
    ELSE [f \in DOMAIN collaboration |->
             IF f \in ListFields THEN arrays[collaboration[f].ref] ELSE collaboration[f]]

(***************************************************************************)
(* src/js/app.js: the root document app.data, its export and its import.   *)
(* A value of the document is a string [str |-> s], a boolean              *)
(* [bool |-> b], Null, an array [array |-> <<values>>] or an object        *)
(* [object |-> [key |-> value]]. A JSON text is given by its structure:    *)
(* the members of an object in the order they are written.                 *)
(***************************************************************************)
Str(s) == [str |-> s]
Bool(b) == [bool |-> b]
Obj(r) == [object |-> r]

\* the keys of the objects of the document, in the order in which the object
\* literals of the application write them
KeyOrder ==
    <<"initialized", "data",
      "profile", "partners", "collaborations", "activities", "customMetrics", "settings",
      "brandName", "industry", "values", "id", "name", "description", "tasks",
      "timestamp", "createdAt", "theme", "fontSize", "compactView">>

\* the own keys of an object, in their order
KeysOf(v) == SelectSeq(KeyOrder, LAMBDA k : k \in DOMAIN v.object)

\* JSON.stringify(v)
RECURSIVE JSONstringify(_)
JSONstringify(v) ==
    IF "str" \in DOMAIN v THEN [json |-> "string", characters |-> v.str]
    ELSE IF "bool" \in DOMAIN v THEN [json |-> IF v.bool THEN "true" ELSE "false"]
    ELSE IF IsNull(v) THEN [json |-> "null"]
    ELSE IF IsArray(v)
    THEN [json |-> "array",
          elements |-> [i \in 1..Len(v.array) |-> JSONstringify(v.array[i])]]
    ELSE [json |-> "object",
          members |-> [i \in 1..Len(KeysOf(v)) |->
                          [key |-> KeysOf(v)[i],
                           value |-> JSONstringify(v.object[KeysOf(v)[i]])]]]

\* a file that is not a JSON text
NotJSON == [json |-> "invalid"]
SyntaxError == [error |-> "SyntaxError"]
IsError(v) == "error" \in DOMAIN v

\* JSON.parse(text): the value, or the SyntaxError it throws; of two members
\* with the same key the later one is kept
RECURSIVE JSONparse(_)
JSONparse(text) ==
    CASE text.json = "invalid" -> SyntaxError
      [] text.json = "string" -> Str(text.characters)
      [] text.json = "true" -> Bool(TRUE)
      [] text.json = "false" -> Bool(FALSE)
      [] text.json = "null" -> Null
      [] text.json = "array" ->
            Array([i \in 1..Len(text.elements) |-> JSONparse(text.elements[i])])
      [] text.json = "object" ->
            Obj([k \in {text.members[i].key : i \in 1..Len(text.members)} |->
                    LET last == CHOOSE i \in 1..Len(text.members) :
                                    /\ text.members[i].key = k
                                    /\ \A j \in (i + 1)..Len(text.members) :
                                          text.members[j].key # k
                    IN  JSONparse(text.members[last].value)])

\* the activities the log keeps
ActivityLimit == 10

\* new Date().toISOString() at the time t
ISOString(t) ==
    <<"2025-03-01T09:00:00.000Z", "2025-03-01T09:05:00.000Z", "2025-03-01T09:10:00.000Z",
      "2025-03-01T09:15:00.000Z", "2025-03-01T09:20:00.000Z", "2025-03-01T09:25:00.000Z">>[t]

\* the object literal activity
Activity(id, description, t) ==
    Obj([id |-> Str(id), description |-> Str(description), timestamp |-> Str(ISOString(t))])

\* addActivity that keeps every activity
addActivity_unlimited(data, description, id, t) ==
    Obj([data.object EXCEPT
            !.activities = Array(<<Activity(id, description, t)>> \o @.array)])

\* app.data after addActivity(description): the activity is put in front of
\* the log, and the log is cut to its ten most recent activities
addActivity(data, description, id, t) ==
    LET log == <<Activity(id, description, t)>> \o data.object.activities.array
    IN  Obj([data.object EXCEPT
                !.activities = Array(IF Len(log) > ActivityLimit
                                     THEN SubSeq(log, 1, ActivityLimit) ELSE log)])

\* the item saveData() stores for app.initialized and app.data
saveData(initialized, data) ==
    JSONstringify(Obj([initialized |-> Bool(initialized), data |-> data]))
\* the item saveData() stores once the application is initialized
SavedItem(data) == saveData(TRUE, data)

\* data[k] is an array; data[k] is neither undefined nor null
HasArray(data, k) == k \in DOMAIN data.object /\ IsArray(data.object[k])
HasValue(data, k) == k \in DOMAIN data.object /\ ~IsNull(data.object[k])
\* data with data[k] = v
WithKey(data, k, v) == Obj((k :> v) @@ data.object)

\* The state of a handler while it runs: app.data, the app.data of its last
\* saveData() as an option, and whether a TypeError has ended it.
Start(data) == [data |-> data, stored |-> <<>>, thrown |-> FALSE]
Throw(r) == [r EXCEPT !.thrown = TRUE]
\* saveData() as a step of a handler
SaveDataStep(r) == IF r.thrown THEN r ELSE [r EXCEPT !.stored = <<r.data>>]

\* !v for a value of the document, or for a property that is undefined
NotTruthy(obj, k) ==
    \/ k \notin DOMAIN obj.object
    \/ IsNull(obj.object[k])
    \/ obj.object[k] = Str("")
    \/ obj.object[k] = Bool(FALSE)

\* AddActivityStep without its saveData()
AddActivityStep_unsaved(r, description, id, t) ==
    IF r.thrown THEN r
    ELSE IF ~HasArray(r.data, "activities") THEN Throw(r)
    ELSE [r EXCEPT !.data = addActivity(r.data, description, id, t)]

\* addActivity(description) as a step of a handler: unshift raises a
\* TypeError when app.data has no activities; otherwise the log is saved
AddActivityStep(r, description, id, t) ==
    IF r.thrown THEN r
    ELSE IF ~HasArray(r.data, "activities") THEN Throw(r)
    ELSE SaveDataStep([r EXCEPT !.data = addActivity(r.data, description, id, t)])

\* updateUI() raises a TypeError when it reads the length of a list app.data
\* does not have: the collaborations if the dashboard has its counter card,
\* the activities and the custom metrics
UpdateUIThrows(data, card) ==
    \/ card /\ ~HasValue(data, "collaborations")
    \/ ~HasArray(data, "activities")
    \/ ~HasArray(data, "customMetrics")

\* exportData(): the file that is downloaded, and the handler's state after
\* the activity
exportData(data, id, t) ==
    LET r == AddActivityStep(Start(data), "Exported data", id, t)
    IN  [download |-> JSONstringify(data), data |-> r.data, stored |-> r.stored]

\* the onload handler of importData() for the text of the selected file, the
\* user's answer to the confirmation and the dashboard's card: the outcome
\* (an error is what the catch block reports), app.data and what was stored
importData(data, text, confirmed, card, id, t) ==
    LET importedData == JSONparse(text)
        unchanged == [data |-> data, stored |-> <<>>]
    IN  IF IsError(importedData) THEN [outcome |-> "error"] @@ unchanged
        ELSE IF ~("object" \in DOMAIN importedData) THEN [outcome |-> "error"] @@ unchanged
        ELSE IF NotTruthy(importedData, "profile") /\ NotTruthy(importedData, "collaborations")
        THEN [outcome |-> "error"] @@ unchanged
        ELSE IF ~confirmed THEN [outcome |-> "declined"] @@ unchanged
        ELSE IF UpdateUIThrows(importedData, card)
        THEN [outcome |-> "error", data |-> importedData, stored |-> <<importedData>>]
        ELSE LET r == AddActivityStep(SaveDataStep(Start(importedData)),
                                      "Imported data", id, t)
             IN  [outcome |-> "imported", data |-> r.data, stored |-> r.stored]
(***************************************************************************)
(* src/unnamed/part_000, PartnerMatcher: the most promising partners.      *)
(* Array.prototype.sort is stable; with a comparator that is not           *)
(* consistent (a score that is NaN compares equal to every other score)    *)
(* the order is implementation-defined, and an operation gives the set of  *)
(* the results it may return.                                              *)
(***************************************************************************)
\* the arrangements of a sequence
RECURSIVE Arrangements(_)
Arrangements(seq) ==
    IF seq = <<>> THEN {<<>>}
    ELSE UNION {{<<seq[i]>> \o p :
                    p \in Arrangements(SelectIdx(seq, [j \in 1..Len(seq) |-> j # i], 1))}
                : i \in 1..Len(seq)}

\* seq in descending order of the whole numbers key[i], equal keys in their
\* order in seq
RECURSIVE SortDescending(_, _)
SortDescending(seq, key) ==
    IF seq = <<>> THEN <<>>
    ELSE LET first == CHOOSE i \in 1..Len(seq) :
                          /\ \A j \in 1..Len(seq) : key[j] <= key[i]
                          /\ \A j \in 1..(i - 1) : key[j] < key[i]
             rest == [j \in 1..Len(seq) |-> j # first]
         IN  <<seq[first]>> \o SortDescending(SelectIdx(seq, rest, 1), SelectIdx(key, rest, 1))

\* sortPartnersByScore(partners) in the default order 'desc', for partners that
\* carry a compatibilityScore [kind, val]: the results it may return
sortPartnersByScore(partners) ==
    IF \A i \in 1..Len(partners) : partners[i].compatibilityScore.kind = "number"
    THEN {SortDescending(partners,
                         [i \in 1..Len(partners) |-> partners[i].compatibilityScore.val])}
    ELSE Arrangements(partners)

\* array.slice(0, limit) for a limit >= 0
SliceTo(seq, limit) == SubSeq(seq, 1, Min(limit, Len(seq)))

\* the partners with their scores, each score computed once
WithScores(brand, partners) ==
    [i \in 1..Len(partners) |->
        The({partners[i] @@ [compatibilityScore |-> s]
               : s \in {calculateCompatibilityScore(brand, partners[i])}})]

\* findMostPromisingPartners(brand, partners, limit): limit is an option, <<>>
\* when the argument is not given; the results it may return are arrays, or the
\* TypeError of a score
findMostPromisingPartners(brand, partners, limit) ==
    IF IsNull(brand) \/ ~IsArray(partners) \/ Len(partners.array) = 0
    THEN {[kind |-> "array", val |-> <<>>]}
    ELSE The({(
        IF \E i \in 1..Len(scored) : scored[i].compatibilityScore.kind = "TypeError"
        THEN {[kind |-> "TypeError", val |-> <<>>]}
        ELSE {[kind |-> "array",
               val |-> SliceTo(sorted, IF limit = <<>> THEN 5 ELSE limit[1])]
                : sorted \in sortPartnersByScore(scored)})
          : scored \in {WithScores(brand, partners.array)}})

(***************************************************************************)
(* src/js/library.js, ResourceLibrary: related and recommended resources.  *)
(* A resource carries its relevanceScore as a whole number; an operation   *)
(* returns [kind |-> "array", val |-> <<resources>>] or the TypeError it   *)
(* raised.                                                                 *)
(***************************************************************************)
typeToObjectives ==
    ("co-branding" :> <<"audience", "credibility">>)
    @@ [product |-> <<"product", "innovation">>,
        content |-> <<"content", "audience">>,
        distribution |-> <<"sales">>,
        technology |-> <<"innovation", "product">>,
        cause |-> <<"credibility", "social">>]

\* the scored resources in descending order of relevanceScore, truncated
TopByRelevance(scored, limit) ==
    SliceTo(SortDescending(scored, [i \in 1..Len(scored) |-> scored[i].relevanceScore]),
            limit)

\* the score of item for the resource: industry, partnership type and type
RelatedScore(item, resource, sameIndustry, samePartnershipType, sameType) ==
    (IF Prop(item, "industry") = Prop(resource, "industry") THEN sameIndustry ELSE 0)
    + (IF Prop(item, "partnershipType") = Prop(resource, "partnershipType")
       THEN samePartnershipType ELSE 0)
    + (IF Prop(item, "type") = Prop(resource, "type") THEN sameType ELSE 0)

\* getRelatedResources(resources, resource, limit); limit is an option
getRelatedResources(resources, resource, limit) ==
    IF ~IsArray(resources) \/ Len(resources.array) = 0 \/ IsNull(resource)
    THEN [kind |-> "array", val |-> <<>>]
    ELSE LET otherResources ==
                 SelectIdx(resources.array,
                           [i \in 1..Len(resources.array) |->
                               Prop(resources.array[i], "id") # Prop(resource, "id")], 1)
             scoredResources ==
                 [i \in 1..Len(otherResources) |->
                     otherResources[i]
                     @@ [relevanceScore |-> RelatedScore(otherResources[i], resource, 2, 2, 1)]]
         IN  [kind |-> "array",
              val |-> TopByRelevance(scoredResources, IF limit = <<>> THEN 3 ELSE limit[1])]

\* the profile has a partnership with objectives
HasObjectives(profile) ==
    "partnership" \in DOMAIN profile /\ "objectives" \in DOMAIN profile.partnership

\* typeToObjectives[resource.partnershipType] || []: the array of the table,
\* the function every object inherits under the name, or the empty array
ResourceObjectives(resource) ==
    IF "partnershipType" \notin DOMAIN resource THEN [kind |-> "own", v |-> <<>>]
    ELSE LET found == Lookup(typeToObjectives, resource.partnershipType)
         IN  IF found.kind = "undefined" THEN [kind |-> "own", v |-> <<>>] ELSE found

\* objectives.some(objective => resourceObjectives.includes(objective)) raises a
\* TypeError when there is an objective and resourceObjectives is a function
MatchThrows(profile, resource) ==
    /\ HasObjectives(profile)
    /\ Len(profile.partnership.objectives) > 0
    /\ ResourceObjectives(resource).kind = "inherited"
hasMatchingObjective(profile, resource) ==
    /\ HasObjectives(profile)
    /\ ResourceObjectives(resource).kind = "own"
    /\ \E i \in 1..Len(profile.partnership.objectives) :
          Includes(ResourceObjectives(resource).v, profile.partnership.objectives[i])

\* the score of a resource for the profile
RecommendedScore(profile, resource, sameIndustry, matchingObjective) ==
    (IF Prop(profile, "industry") = Prop(resource, "industry") THEN sameIndustry ELSE 0)
    + (IF hasMatchingObjective(profile, resource) THEN matchingObjective ELSE 0)

\* getRecommendedResources(resources, profile, limit); limit is an option
getRecommendedResources(resources, profile, limit) ==
    IF ~IsArray(resources) \/ Len(resources.array) = 0 \/ IsNull(profile)
    THEN [kind |-> "array", val |-> <<>>]
    ELSE IF \E i \in 1..Len(resources.array) : MatchThrows(profile, resources.array[i])
    THEN [kind |-> "TypeError", val |-> <<>>]
    ELSE LET scoredResources ==
                 [i \in 1..Len(resources.array) |->
                     resources.array[i]
                     @@ [relevanceScore |->
                            RecommendedScore(profile, resources.array[i], 3, 2)]]
         IN  [kind |-> "array",
              val |-> TopByRelevance(scoredResources, IF limit = <<>> THEN 5 ELSE limit[1])]

(***************************************************************************)
(* src/js/data.js, DataManager: the compatibility score of the sample      *)
(* partners. The score is a whole number of points; adding a function      *)
(* object to it makes a string, which Math.max turns into NaN.             *)
(***************************************************************************)
dataComplementaryIndustries ==
    [sports        |-> <<"entertainment", "healthcare", "retail">>,
     entertainment |-> <<"sports", "technology", "retail">>,
     technology    |-> <<"entertainment", "financial", "healthcare">>,
     retail        |-> <<"sports", "entertainment">>,
     financial     |-> <<"technology">>,
     healthcare    |-> <<"sports", "technology">>]

\* sizeCompatibility with the row of medium completed
sizeCompatibility_completed ==
    [startup    |-> [startup |-> 15, small |-> 12, medium |-> 8,
                     large |-> 5, enterprise |-> 3],
     small      |-> [startup |-> 12, small |-> 15, medium |-> 12,
                     large |-> 8, enterprise |-> 5],
     medium     |-> [startup |-> 8, small |-> 12, medium |-> 15,
                     large |-> 12, enterprise |-> 8],
     large      |-> [startup |-> 5, small |-> 8, medium |-> 12,
                     large |-> 15, enterprise |-> 12],
     enterprise |-> [startup |-> 3, small |-> 5, medium |-> 8,
                     large |-> 12, enterprise |-> 15]]

\* the row of medium is written with the key small twice: the later value
\* replaces the earlier one, and the row has no key enterprise
sizeCompatibility ==
    [startup    |-> [startup |-> 15, small |-> 12, medium |-> 8,
                     large |-> 5, enterprise |-> 3],
     small      |-> [startup |-> 12, small |-> 15, medium |-> 12,
                     large |-> 8, enterprise |-> 5],
     medium     |-> [startup |-> 8, small |-> 8, medium |-> 15,
                     large |-> 12],
     large      |-> [startup |-> 5, small |-> 8, medium |-> 12,
                     large |-> 15, enterprise |-> 12],
     enterprise |-> [startup |-> 3, small |-> 5, medium |-> 8,
                     large |-> 12, enterprise |-> 15]]

\* the points of the industries, or the TypeError of calling includes on an
\* inherited row
IndustryPoints(brand1, brand2) ==
    IF Prop(brand1, "industry") = Prop(brand2, "industry")
    THEN [kind |-> "number", val |-> 20]
    ELSE LET row == IF "industry" \in DOMAIN brand1
                    THEN Lookup(dataComplementaryIndustries, brand1.industry)
                    ELSE [kind |-> "undefined", v |-> <<>>]
         IN  IF row.kind = "inherited" THEN [kind |-> "TypeError", val |-> 0]
             ELSE IF row.kind = "own" /\ "industry" \in DOMAIN brand2
                     /\ Includes(row.v, brand2.industry)
                  THEN [kind |-> "number", val |-> 10]
             ELSE [kind |-> "number", val |-> 0]

GeographyPoints(brand1, brand2) ==
    LET g1 == Prop(brand1, "geographicFocus")
        g2 == Prop(brand2, "geographicFocus")
    IN  IF g1 = g2 THEN 15
        ELSE IF \/ (g1 = <<"global">> /\ g2 \in {<<"international">>, <<"national">>})
                \/ (g2 = <<"global">> /\ g1 \in {<<"international">>, <<"national">>})
             THEN 10
        ELSE IF \/ (g1 = <<"international">> /\ g2 = <<"national">>)
                \/ (g2 = <<"international">> /\ g1 = <<"national">>)
             THEN 8
        ELSE 0

\* a.filter(x => b.includes(x)) of two options raises a TypeError when a is
\* undefined, or when b is and the callback is called
OverlapThrows(a, b) == a = <<>> \/ (b = <<>> /\ Len(a[1]) > 0)
\* Math.min(25, shared.length * each)
OverlapPoints(a, b, each) == Min(25, CountIn(a[1], b[1]) * each)

\* brand.partnership.objectives: the option of the array, or the TypeError of
\* reading a property of undefined
ObjectivesThrows(brand) == "partnership" \notin DOMAIN brand
ObjectivesOf(brand) == Prop(brand.partnership, "objectives")

\* the points added for the company sizes: those of the table, nothing, or
\* the function object an own row inherits
SizePoints(brand1, brand2) ==
    LET row == IF "companySize" \in DOMAIN brand1
               THEN Lookup(sizeCompatibility, brand1.companySize)
               ELSE [kind |-> "undefined", v |-> <<>>]
    IN  IF row.kind = "own"
        THEN LET cell == IF "companySize" \in DOMAIN brand2
                         THEN Lookup(row.v, brand2.companySize)
                         ELSE [kind |-> "undefined", v |-> <<>>]
             IN  IF cell.kind = "own" THEN [kind |-> "number", val |-> cell.v]
                 ELSE IF cell.kind = "inherited" THEN [kind |-> "function", val |-> 0]
                 ELSE [kind |-> "number", val |-> 0]
        ELSE [kind |-> "number", val |-> 0]

\* Math.min(100, Math.max(0, score))
Clamp(score) == Min(100, IF score < 0 THEN 0 ELSE score)

\* DataManager.calculateCompatibilityScore(brand1, brand2)
dataCalculateCompatibilityScore(brand1, brand2) ==
    LET industry == IndustryPoints(brand1, brand2)
        size == SizePoints(brand1, brand2)
    IN  IF \/ industry.kind = "TypeError"
           \/ OverlapThrows(Prop(brand1, "values"), Prop(brand2, "values"))
           \/ ObjectivesThrows(brand1) \/ ObjectivesThrows(brand2)
           \/ OverlapThrows(ObjectivesOf(brand1), ObjectivesOf(brand2))
        THEN [kind |-> "TypeError", val |-> 0]
        ELSE IF size.kind = "function" THEN [kind |-> "NaN", val |-> 0]
        ELSE [kind |-> "number",
              val |-> Clamp(industry.val + GeographyPoints(brand1, brand2)
                            + OverlapPoints(Prop(brand1, "values"), Prop(brand2, "values"), 8)
                            + OverlapPoints(ObjectivesOf(brand1), ObjectivesOf(brand2), 10)
                            + size.val)]

\* the partner profiles of generateSamplePartnership, by the properties the
\* score reads
partnerProfiles ==
    <<[id |-> "partner1", industry |-> "technology", companySize |-> "large",
       geographicFocus |-> "global",
       values |-> <<"innovation", "quality", "integrity">>,
       partnership |-> [objectives |-> <<"product", "innovation">>]],
      [id |-> "partner2", industry |-> "sports", companySize |-> "medium",
       geographicFocus |-> "national",
       values |-> <<"community", "excellence", "authenticity">>,
       partnership |-> [objectives |-> <<"audience", "content">>]],
      [id |-> "partner3", industry |-> "entertainment", companySize |-> "enterprise",
       geographicFocus |-> "international",
       values |-> <<"creativity", "customer", "diversity">>,
       partnership |-> [objectives |-> <<"content", "audience">>]],
      [id |-> "partner4", industry |-> "retail", companySize |-> "small",
       geographicFocus |-> "regional",
       values |-> <<"sustainability", "social", "integrity">>,
       partnership |-> [objectives |-> <<"credibility", "sales">>]],
      [id |-> "partner5", industry |-> "financial", companySize |-> "large",
       geographicFocus |-> "national",
       values |-> <<"integrity", "excellence", "customer">>,
       partnership |-> [objectives |-> <<"credibility", "audience">>]],
      [id |-> "partner6", industry |-> "healthcare", companySize |-> "medium",
       geographicFocus |-> "national",
       values |-> <<"quality", "integrity", "community">>,
       partnership |-> [objectives |-> <<"audience", "credibility">>]]>>

(***************************************************************************)
(* src/js/app.js: the page and its handlers. A handler is given by the     *)
(* state it leaves: app.data, the app.data of its last saveData() and      *)
(* whether a TypeError ended it.                                           *)
(***************************************************************************)
\* app.data as the page is constructed, and as clearData() resets it
EmptyData ==
    Obj([profile |-> Null, partners |-> Array(<<>>), collaborations |-> Array(<<>>),
         activities |-> Array(<<>>), customMetrics |-> Array(<<>>),
         settings |-> Obj([theme |-> Str("default"), fontSize |-> Str("medium"),
                           compactView |-> Bool(FALSE)])])

\* saveProfile(): the profile is set and saved, the activity is logged
saveProfile(data, profile, id, t) ==
    AddActivityStep(SaveDataStep(Start(WithKey(data, "profile", profile))),
                    "Updated brand profile", id, t)

\* saveCollaboration(): push raises a TypeError when app.data has no
\* collaborations
saveCollaboration(data, collaboration, id, t) ==
    IF ~HasArray(data, "collaborations") THEN Throw(Start(data))
    ELSE AddActivityStep(
             SaveDataStep(Start(WithKey(data, "collaborations",
                                        Array(Append(data.object.collaborations.array,
                                                     collaboration))))),
             "Created collaboration: Launch", id, t)

saveCustomMetric(data, metric, id, t) ==
    IF ~HasArray(data, "customMetrics") THEN Throw(Start(data))
    ELSE AddActivityStep(
             SaveDataStep(Start(WithKey(data, "customMetrics",
                                        Array(Append(data.object.customMetrics.array,
                                                     metric))))),
             "Added custom metric: Reach", id, t)

\* deleteCustomMetric(metricId), for the user's answer to the confirmation
deleteCustomMetric(data, metricId, confirmed, id, t) ==
    IF ~confirmed THEN Start(data)
    ELSE IF ~HasArray(data, "customMetrics") THEN Throw(Start(data))
    ELSE AddActivityStep(
             SaveDataStep(Start(WithKey(data, "customMetrics",
                 Array(SelectSeq(data.object.customMetrics.array,
                                 LAMBDA metric : metric.object.id # Str(metricId)))))),
             "Deleted a custom metric", id, t)

\* app.data.settings[k] = v; saveData(): the assignment raises a TypeError
\* when app.data has no settings
UpdateSetting(data, k, v) ==
    IF ~HasValue(data, "settings") THEN Throw(Start(data))
    ELSE SaveDataStep(Start(WithKey(data, "settings", WithKey(data.object.settings, k, v))))
updateTheme(data, theme) == UpdateSetting(data, "theme", Str(theme))
updateFontSize(data, fontSize) == UpdateSetting(data, "fontSize", Str(fontSize))
updateCompactView(data, compactView) == UpdateSetting(data, "compactView", Bool(compactView))

clearData == SaveDataStep(Start(EmptyData))

\* the sample partners of the search, by the properties the search reads
generateSamplePartners ==
    <<[id |-> "partner1", industry |-> "technology", companySize |-> "large",
       geographicFocus |-> "global",
       values |-> <<"innovation", "quality", "integrity">>,
       partnership |-> [objectives |-> <<"product", "innovation">>],
       compatibilityScore |-> 85],
      [id |-> "partner2", industry |-> "sports", companySize |-> "medium",
       geographicFocus |-> "national",
       values |-> <<"community", "excellence", "authenticity">>,
       partnership |-> [objectives |-> <<"audience", "content">>],
       compatibilityScore |-> 72],
      [id |-> "partner3", industry |-> "entertainment", companySize |-> "enterprise",
       geographicFocus |-> "international",
       values |-> <<"creativity", "customer", "diversity">>,
       partnership |-> [objectives |-> <<"content", "audience">>],
       compatibilityScore |-> 68],
      [id |-> "partner4", industry |-> "retail", companySize |-> "small",
       geographicFocus |-> "regional",
       values |-> <<"sustainability", "social", "integrity">>,
       partnership |-> [objectives |-> <<"credibility", "sales">>],
       compatibilityScore |-> 55],
      [id |-> "partner5", industry |-> "financial", companySize |-> "large",
       geographicFocus |-> "national",
       values |-> <<"integrity", "excellence", "customer">>,
       partnership |-> [objectives |-> <<"credibility", "audience">>],
       compatibilityScore |-> 42],
      [id |-> "partner6", industry |-> "healthcare", companySize |-> "medium",
       geographicFocus |-> "national",
       values |-> <<"quality", "integrity", "community">>,
       partnership |-> [objectives |-> <<"audience", "credibility">>],
       compatibilityScore |-> 78]>>

\* a filter of the search form: an empty value filters nothing
Passes(filter, matches) == filter = "" \/ matches
\* the partners displayPartnerResults() is given, in the order of its cards
filteredPartners(filters) ==
    SelectSeq(generateSamplePartners,
              LAMBDA p :
                  /\ Passes(filters.industry, p.industry = filters.industry)
                  /\ Passes(filters.size, p.companySize = filters.size)
                  /\ Passes(filters.geography, p.geographicFocus = filters.geography)
                  /\ Passes(filters.values, Includes(p.values, filters.values))
                  /\ Passes(filters.objective,
                            Includes(p.partnership.objectives, filters.objective)))
\* searchPartners(): the cards shown, and the activity
searchPartners(data, filters, id, t) ==
    [shown |-> filteredPartners(filters)]
    @@ AddActivityStep(Start(data), "Searched for potential partners", id, t)

\* loadPage without "app.initialized = true" after the welcome screen
loadPage_initializedNotSet(item, card) ==
    IF item = [json |-> "none"]
    THEN [initialized |-> FALSE, data |-> EmptyData, stored |-> <<EmptyData>>,
          welcome |-> TRUE, ready |-> TRUE]
    ELSE LET parsedData == JSONparse(item).object
             initialized == parsedData.initialized.bool
             data == parsedData.data
         IN  IF ~HasValue(data, "settings")
             THEN [initialized |-> initialized, data |-> data, stored |-> <<>>,
                   welcome |-> FALSE, ready |-> FALSE]
             ELSE [initialized |-> initialized, data |-> data, stored |-> <<data>>,
                   welcome |-> ~initialized, ready |-> ~UpdateUIThrows(data, card)]

\* The DOMContentLoaded handler for the item found in localStorage: app.data
\* and app.initialized, what was stored, whether the welcome screen was shown
\* and whether the handler got to install the event listeners.
loadPage(item, card) ==
    IF item = [json |-> "none"]
    THEN [initialized |-> TRUE, data |-> EmptyData, stored |-> <<EmptyData>>,
          welcome |-> TRUE, ready |-> TRUE]
    ELSE LET parsedData == JSONparse(item).object
             initialized == parsedData.initialized.bool
             data == parsedData.data
         IN  IF ~HasValue(data, "settings")
             THEN \* applySettings() raises a TypeError inside loadData()
                  [initialized |-> initialized, data |-> data, stored |-> <<>>,
                   welcome |-> FALSE, ready |-> FALSE]
             ELSE [initialized |-> TRUE, data |-> data, stored |-> <<data>>,
                   welcome |-> ~initialized, ready |-> ~UpdateUIThrows(data, card)]

(***************************************************************************)
(* State: the records a caller holds and the calls it has made.            *)
(***************************************************************************)
VARIABLES
    brand,        \* the caller's own brand profile
    partner,      \* a candidate partner profile
    partnership,  \* the partnership record the caller assesses
    call,         \* the last call: [op, ...arguments, ret], or NoCall
    prev,         \* the call before the caller edited the partnership, or NoCall
    collaboration, \* the collaboration workspace the caller holds
    now,          \* the current time, in half days
    arrays,       \* the arrays the collaboration refers to
    appData,      \* app.data, the root document of the application
    storage,      \* the item of the application in localStorage
    download,     \* the file the last export wrote
    fileInput,    \* the file selected for the import
    page,         \* the page: app.initialized and how the last load went
    partners,     \* the list of candidate partners
    resources     \* the catalog of the resource library

vars == <<brand, partner, partnership, call, prev, collaboration, now, arrays,
          appData, storage, download, fileInput, page, partners, resources>>
\* the records of the partnership assessment, and those of the workspace
assessmentVars == <<brand, partner, partnership, prev>>
workspaceVars == <<collaboration, now, arrays>>
documentVars == <<appData, storage, download, fileInput, page>>
listVars == <<partners, resources>>

NoCall == [op |-> "none"]

(***************************************************************************)
(* Inputs                                                                  *)
(***************************************************************************)
\* longest values array and objectives array of the caller's brand profile
MaxLen == 2
\* largest rating a caller enters: one above the nominal scale 0..5
MaxRating == 6
\* the short timeframes a caller enters, besides a year
MaxMonths == 2

\* the sequences over S of length at most n
RECURSIVE SeqsUpTo(_, _)
SeqsUpTo(S, n) ==
    IF n = 0 THEN {<<>>}
    ELSE LET shorter == SeqsUpTo(S, n - 1)
         IN  shorter \cup {Append(q, x)
           : q \in {r \in shorter : Len(r) = n - 1}, x \in S}

\* a property that is absent, or present with a value of S
Optional(name, S) == {<<>>} \cup {name :> v : v \in S}

\* the caller's profile: every field may be absent; an industry may be a name
\* that every object inherits
Brands ==
    {i @@ v @@ p @@ g @@ s :
        i \in Optional("industry", {"sports", "constructor"}),
        v \in Optional("values", SeqsUpTo({"integrity", "community"}, MaxLen)),
        p \in Optional("partnership",
                       Optional("objectives", SeqsUpTo({"audience"}, MaxLen))),
        g \in Optional("geographicFocus", {"national"}),
        s \in Optional("companySize", {"small"})}

\* SportsFit and EcoGoods of the application's sample partners, a partner whose
\* fields are in no table, one whose fields are names every object inherits,
\* and one without values or objectives
Partners ==
    {[industry |-> "sports", companySize |-> "medium", geographicFocus |-> "national",
      values |-> <<"community", "excellence", "authenticity">>,
      partnership |-> [objectives |-> <<"audience", "content">>]],
     [industry |-> "retail", companySize |-> "small", geographicFocus |-> "regional",
      values |-> <<"sustainability", "social", "integrity">>,
      partnership |-> [objectives |-> <<"credibility", "sales">>]],
     [industry |-> "aerospace", companySize |-> "micro", geographicFocus |-> "orbital",
      values |-> <<"integrity">>, partnership |-> [objectives |-> <<"audience">>]],
     [industry |-> "sports", companySize |-> "constructor", geographicFocus |-> "constructor",
      values |-> <<"integrity", "community">>, partnership |-> [objectives |-> <<"product">>]],
     [industry |-> "sports", companySize |-> "enterprise", geographicFocus |-> "national",
      values |-> <<>>, partnership |-> [objectives |-> <<>>]]}

Investments ==
    {d @@ s @@ o :
        d \in Optional("directCosts", {0, 1000}),
        s \in {<<>>, [staffHours |-> 10], [staffHours |-> 10, hourlyRate |-> 50]},
        o \in {<<>>, [resourceAllocation |-> 100, marketingCosts |-> 200,
                      technologyCosts |-> 300, otherCosts |-> 400]}}

ReturnsRecords ==
    {r @@ c @@ n @@ m @@ o :
        r \in Optional("directRevenue", {0, 200}),
        c \in Optional("costSavings", {50}),
        n \in {<<>>, [newCustomers |-> 3], [newCustomers |-> 3, customerLTV |-> 100]},
        m \in {<<>>, [marketShareIncrease |-> 2, marketShareValue |-> 500]},
        o \in Optional("otherReturns", {70})}

TimeframeMonths == (-1..MaxMonths) \cup {12}

\* partnerships for the financial ROI
FinancialInputs ==
    {i @@ r @@ m :
        i \in Optional("investment", Investments),
        r \in Optional("returns", ReturnsRecords),
        m \in Optional("timeframeMonths", TimeframeMonths)}

StrategicFields ==
    {"audienceReach", "audienceOverlap", "audienceEngagement",
     "brandAlignment", "reputationEnhancement", "brandVisibility",
     "innovationPotential", "technologyAccess", "ipCreation",
     "newMarketAccess", "channelExpansion", "competitiveAdvantage",
     "strategicAlignment", "longTermPotential", "ecosystemIntegration"}
RiskFields ==
    {"investmentSize", "revenueUncertainty", "costOverrunRisk",
     "partnerReputationRisk", "brandAlignmentRisk",
     "integrationComplexity", "resourceConflictRisk", "timelineRisk",
     "goalMisalignmentRisk", "dependencyRisk", "competitiveDisclosureRisk"}
\* the fields that are percentages; the others are ratings
PercentFields == {"audienceReach", "audienceOverlap", "brandVisibility"}

Ratings == -1..MaxRating
\* the rating k as a value of the field f: percentages go in steps of 25
Scaled(f, k) == IF f \in PercentFields THEN 25 * k ELSE k
Uniform(fields, k) == [f \in fields |-> Scaled(f, k)]

\* partnerships for the strategic value and the risk assessment: no field, or
\* every field at the same rating, and at most one field apart from the rest
ScoreInputs ==
    LET bases == {<<>>} \cup {Uniform(StrategicFields \cup RiskFields, k) : k \in Ratings}
    IN  bases \cup {(f :> Scaled(f, v)) @@ b :
                       b \in bases, f \in StrategicFields \cup RiskFields, v \in Ratings}

\* partnerships for the overall assessment
ROIInputs ==
    {i @@ r @@ m @@ Uniform(StrategicFields, ks) @@ Uniform(RiskFields, kr) :
        i \in Optional("investment", {<<>>, [directCosts |-> 1000]}),
        r \in Optional("returns",
                       {[directRevenue |-> x] : x \in {50, 100, 125, 150, 200, 250, 300}}),
        m \in Optional("timeframeMonths", {-1, 0, 10, 12}),
        ks \in Ratings, kr \in Ratings}


\* the longest task list
MaxTasks == 20
\* the longest milestone list
MaxMilestones == 67
\* the latest day of a schedule
MaxDay == 4

\* n items of the status s
Run(s, n) == [i \in 1..n |-> [status |-> s]]

\* task lists: the short ones in every order, one of them without a status, and
\* the longer ones by their numbers of completed, in-progress, cancelled and
\* pending tasks
TaskLists ==
    SeqsUpTo({<<>>} \cup {[status |-> s] :
                 s \in {"pending", "in-progress", "completed", "cancelled"}}, MaxLen)
    \cup {Run("completed", t[1]) \o Run("in-progress", t[2])
          \o Run("cancelled", t[3]) \o Run("pending", t[4]) :
            t \in {u \in (0..MaxTasks) \X (0..2) \X (0..1) \X (0..MaxTasks) :
                      u[1] + u[2] + u[3] + u[4] <= MaxTasks}}

MilestoneLists ==
    {Run("completed", t[1]) \o Run("missed", t[2]) \o Run("pending", t[3]) :
        t \in {u \in (0..MaxMilestones) \X (0..1) \X (0..MaxMilestones) :
                  u[1] + u[2] + u[3] <= MaxMilestones}}

\* the milestone lists of a scheduled collaboration: short, or of full length
ScheduledMilestoneLists ==
    {m \in MilestoneLists : Len(m) \in {0, 1, 2, MaxMilestones}
                             /\ CountStatus(m, "missed") = 0}

\* collaborations for the progress: a task list, a milestone list, or a few
\* tasks and milestones with a start date and a deadline
ProgressInputs ==
    {[tasks |-> t] : t \in TaskLists}
    \cup {[milestones |-> m] : m \in MilestoneLists}
    \cup {t @@ m @@ s @@ e :
            t \in Optional("tasks", {<<[status |-> "completed"]>>,
                                     <<[status |-> "completed"], [status |-> "pending"]>>,
                                     <<[status |-> "pending"]>>}),
            m \in Optional("milestones", ScheduledMilestoneLists),
            s \in Optional("startDate", {0}),
            e \in Optional("endDate", {0, MaxDay})}

\* the times at which a collaboration with a deadline is looked at
NowTimes == -1..(2 * MaxDay + 3)

\* the ids of the items a collaboration holds
ItemIds == {"a", "b"}
\* the items of a list, as the add operation of the list made them
ExistingItems(list) == {NewItem(list, [id |-> i, title |-> "Plan"], "g0", 1) : i \in ItemIds}

\* collaborations for the operations: one list is absent or holds up to MaxLen
\* items, two of which may share an id; the other lists are all absent or hold
\* one item each
WorkspaceInputs ==
    {[id |-> "c1", name |-> "Launch", createdAt |-> 1, updatedAt |-> 1] @@ l @@ o :
        l \in UNION {Optional(f, SeqsUpTo(ExistingItems(f), MaxLen)) : f \in ListFields},
        o \in {<<>>, [f \in ListFields |-> <<NewItem(f, [id |-> "a"], "g0", 1)>>]}}

\* the list properties of an object, in the order of their arrays on the heap
ListsOf(c) ==
    SelectSeq(<<"tasks", "milestones", "documents", "notes">>, LAMBDA f : f \in DOMAIN c)
\* the heap of the arrays of the collaboration c given by its contents
HeapOf(c) == [k \in 1..Len(ListsOf(c)) |-> c[ListsOf(c)[k]]]
\* the object c with the references to its arrays
ObjectOf(c) ==
    [f \in DOMAIN c |->
        IF f \in ListFields
        THEN [ref |-> CHOOSE k \in 1..Len(ListsOf(c)) : ListsOf(c)[k] = f]
        ELSE c[f]]

\* the arguments of the operations: the item to add, null included
ItemArguments ==
    {Null, <<>>, [title |-> "Kickoff"], [title |-> ""],
     [id |-> "a", title |-> "Kickoff", createdAt |-> 1, status |-> "completed"]}
\* the id of the item to update or to delete
IdArguments == ItemIds \cup {"", "zz"}
\* the updates
UpdateArguments ==
    {Null, [status |-> "completed"], [title |-> "Renamed", status |-> "completed"],
     [id |-> "zz", createdAt |-> 9, title |-> "Renamed"], [updatedAt |-> 9]}
\* what generateId() returns
GeneratedIds == {"g1"}

\* the latest time of the clock
MaxClock == 5
\* no file
NoFile == [json |-> "none"]

\* the settings the application starts with
DefaultSettings ==
    Obj([theme |-> Str("default"), fontSize |-> Str("medium"), compactView |-> Bool(FALSE)])
\* a log of n activities of the first hour
Log(n) == Array([i \in 1..n |-> Activity("a0", "Created collaboration: Launch", 1)])

\* root documents: without or with a profile, without or with a collaboration,
\* with a log of any length up to the limit
Documents ==
    {Obj([profile |-> p, partners |-> Array(<<>>), collaborations |-> Array(c),
          activities |-> Log(n), customMetrics |-> Array(<<>>),
          settings |-> DefaultSettings]) :
        p \in {Null, Obj([brandName |-> Str("Acme"), industry |-> Str("sports"),
                          values |-> Array(<<Str("integrity")>>),
                          createdAt |-> Str(ISOString(1))])},
        c \in {<<>>, <<Obj([id |-> Str("c1"), name |-> Str("Launch"),
                            tasks |-> Array(<<>>)])>>},
        n \in 0..ActivityLimit}

\* the files a user may select besides a file the application wrote: one that
\* is not JSON, the text {} and the text null
OtherFiles == {NotJSON, [json |-> "object", members |-> <<>>], [json |-> "null"]}

\* the longest list of candidate partners
MaxPartners == 6

\* the brands that look for partners: with values, a geographic focus and a
\* company size, with or without an industry and objectives
RankingBrands ==
    {i @@ p @@ [values |-> <<"integrity", "community">>, geographicFocus |-> "national",
                companySize |-> "small"] :
        i \in Optional("industry", {"sports", "constructor"}),
        p \in Optional("partnership", {[objectives |-> <<"audience">>]})}

\* lists of candidate partners: the short ones, and longer ones in which two
\* partners alternate
PartnerLists ==
    SeqsUpTo(Partners, MaxLen)
    \cup {[i \in 1..n |-> IF i % 2 = 1 THEN p ELSE q] :
            p \in Partners, q \in Partners, n \in 3..MaxPartners}

\* the limit a caller passes: none, or a small number
LimitArguments == {<<>>} \cup {<<n>> : n \in 0..2}

\* the resources of the library's sample catalog, by the properties the
\* scores read
SampleResources ==
    <<[id |-> "resource1", type |-> "case", industry |-> "sports",
       partnershipType |-> "technology"],
      [id |-> "resource2", type |-> "template", industry |-> "retail",
       partnershipType |-> "co-branding"],
      [id |-> "resource3", type |-> "guide", industry |-> "entertainment",
       partnershipType |-> "content"],
      [id |-> "resource4", type |-> "case", industry |-> "financial",
       partnershipType |-> "distribution"],
      [id |-> "resource5", type |-> "template", industry |-> "healthcare",
       partnershipType |-> "cause"],
      [id |-> "resource6", type |-> "guide", industry |-> "technology",
       partnershipType |-> "product"]>>
\* further resources: one close to resource1, one without properties, and one
\* whose partnership type is a name every object inherits
FurtherResources ==
    {[id |-> "resource7", type |-> "case", industry |-> "sports",
      partnershipType |-> "co-branding"],
     <<>>,
     [id |-> "resource8", type |-> "guide", industry |-> "retail",
      partnershipType |-> "constructor"]}

\* catalogs: the short ones, the sample catalog and its beginnings, and the
\* sample catalog with a further resource
Catalogs ==
    SeqsUpTo({SampleResources[i] : i \in 1..Len(SampleResources)} \cup FurtherResources,
             MaxLen)
    \cup {SubSeq(SampleResources, 1, n) : n \in 0..Len(SampleResources)}
    \cup {Append(SampleResources, r) : r \in FurtherResources}

\* the profiles the library recommends for
LibraryProfiles ==
    {i @@ p :
        i \in Optional("industry", {"sports", "retail"}),
        p \in Optional("partnership",
                       {<<>>, [objectives |-> <<>>], [objectives |-> <<"audience">>],
                        [objectives |-> <<"innovation", "sales">>]})}

\* the geographic focuses and company sizes of the matrices, a name in no
\* matrix and a name every object inherits
GeographyArguments ==
    Optional(1, {"local", "regional", "national", "international", "global",
                 "orbital", "constructor", ""})
SizeArguments ==
    Optional(1, {"startup", "small", "medium", "large", "enterprise",
                 "micro", "constructor", ""})
\* the values and objectives arrays of the sub-scores
OverlapArguments == Optional(1, SeqsUpTo({"integrity", "community"}, MaxLen))

\* profiles of one industry to be scored in both orders
SymmetryProfiles ==
    {[industry |-> "sports", geographicFocus |-> g, companySize |-> s, values |-> v,
      partnership |-> [objectives |-> o]] :
        g \in {"local", "global", "constructor"},
        s \in {"startup", "large", "constructor"},
        v \in {<<"integrity">>, <<"community", "integrity">>},
        o \in {<<"audience">>}}

\* the brand profiles matched against the sample partners: every company size
\* of the form, and an industry that is a name every object inherits
SavedProfiles ==
    {[industry |-> i, companySize |-> s, geographicFocus |-> g, values |-> v,
      partnership |-> [objectives |-> o]] :
        i \in {"sports", "retail", "aerospace", "constructor"},
        s \in {"startup", "small", "medium", "large", "enterprise"},
        g \in {"local", "national", "international", "global"},
        v \in {<<>>, <<"integrity", "community", "excellence">>},
        o \in {<<"audience">>, <<"audience", "content">>}}

\* the most page loads of a run
MaxLoads == 2
\* no page has been loaded
NoPage == [loads |-> 0, initialized |-> FALSE, welcome |-> FALSE, ready |-> FALSE,
           found |-> FALSE]
\* a page that found its item and is ready for the user
LoadedPage == [loads |-> 1, initialized |-> TRUE, welcome |-> FALSE, ready |-> TRUE,
               found |-> TRUE]

\* what the user enters in the forms
EnteredProfile ==
    Obj([brandName |-> Str("Acme"), industry |-> Str("sports"),
         values |-> Array(<<Str("integrity")>>), createdAt |-> Str(ISOString(1))])
EnteredCollaboration ==
    Obj([id |-> Str("g1"), name |-> Str("Launch"), tasks |-> Array(<<>>)])
EnteredMetric == Obj([id |-> Str("g1"), name |-> Str("Reach")])
\* the filters of the partner search: none, or one value
SearchFilters ==
    {[industry |-> i, size |-> s, geography |-> g, values |-> v, objective |-> o] :
        i \in {"", "sports", "financial"}, s \in {"", "medium", "large"},
        g \in {"", "national"}, v \in {"", "integrity"}, o \in {"", "audience"}}

\* the document a browser holds from an earlier visit: its log is one
\* activity short of full
StoredDocuments == {WithKey(EmptyData, "activities", Log(ActivityLimit - 1))}

\* files written by hand: the text {}, a profile alone, a document without
\* custom metrics whose log has one activity more than the application keeps,
\* and a document without collaborations and settings
HandWrittenFiles ==
    {[json |-> "object", members |-> <<>>],
     JSONstringify(Obj([profile |-> EnteredProfile])),
     JSONstringify(Obj([profile |-> EnteredProfile, collaborations |-> Array(<<>>),
                        activities |-> Log(ActivityLimit + 1),
                        settings |-> EmptyData.object.settings])),
     JSONstringify(Obj([profile |-> EnteredProfile, activities |-> Log(2),
                        customMetrics |-> Array(<<>>)]))}

\* what generateId() returns at the time t: the time in base 36 (the random
\* suffix is left out, so that two generated ids differ when their times do)
GeneratedIdAt(t) == <<"t1", "t2", "t3", "t4", "t5", "t6">>[t]
\* the tasks a caller adds one after the other: without an id, or with an id
\* of the caller's choice
TaskArguments ==
    {[title |-> "Kickoff"], [id |-> "a", title |-> "Kickoff"], [id |-> "b", title |-> "Review"],
     [id |-> "t3", title |-> "Plan"]}
\* a collaboration as createCollaboration makes it, by the fields the task
\* operations read: it has no tasks
NewCollaboration ==
    [id |-> "c1", name |-> "Launch", tasks |-> <<>>, createdAt |-> 1, updatedAt |-> 1]
\* the ids a caller updates or deletes by, and the updates
TaskIdArguments == {"a", "b", "t3", "zz"}
TaskUpdateArguments == {[status |-> "completed"], [id |-> "b", title |-> "Renamed"]}
(***************************************************************************)
(* The operations, applied by a caller to the records it holds.            *)
(***************************************************************************)
CalculateCompatibilityScore ==
    /\ call = NoCall
    /\ \E x \in {brand, Null}, y \in {partner, brand, Null} :
          call' = [op |-> "calculateCompatibilityScore", brand1 |-> x, brand2 |-> y,
                   ret |-> calculateCompatibilityScore(x, y)]
    /\ UNCHANGED <<brand, partner, partnership, prev, workspaceVars, documentVars, listVars>>

GenerateCompatibilityReport ==
    /\ call = NoCall
    /\ \E x \in {brand, Null}, y \in {partner, Null} :
          call' = [op |-> "generateCompatibilityReport", brand1 |-> x, brand2 |-> y,
                   ret |-> generateCompatibilityReport(x, y)]
    /\ UNCHANGED <<brand, partner, partnership, prev, workspaceVars, documentVars, listVars>>

CalculateFinancialROI ==
    /\ call = NoCall
    /\ call' = [op |-> "calculateFinancialROI",
                investment |-> Arg(partnership, "investment"),
                returns |-> Arg(partnership, "returns"),
                months |-> Prop(partnership, "timeframeMonths"),
                ret |-> calculateFinancialROI(Arg(partnership, "investment"),
                                              Arg(partnership, "returns"),
                                              Prop(partnership, "timeframeMonths"))]
    /\ UNCHANGED <<brand, partner, partnership, prev, workspaceVars, documentVars, listVars>>

CalculateStrategicValue ==
    /\ call = NoCall
    /\ \E p \in {partnership, Null} :
          call' = [op |-> "calculateStrategicValue", partnership |-> p,
                   ret |-> calculateStrategicValue(p)]
    /\ UNCHANGED <<brand, partner, partnership, prev, workspaceVars, documentVars, listVars>>

CalculateRiskAssessment ==
    /\ call = NoCall
    /\ \E p \in {partnership, Null} :
          call' = [op |-> "calculateRiskAssessment", partnership |-> p,
                   ret |-> calculateRiskAssessment(p)]
    /\ UNCHANGED <<brand, partner, partnership, prev, workspaceVars, documentVars, listVars>>

CalculatePartnershipROI ==
    /\ call = NoCall
    /\ \E p \in {partnership, Null} :
          call' = [op |-> "calculatePartnershipROI", partnership |-> p,
                   ret |-> calculatePartnershipROI(p)]
    /\ UNCHANGED <<brand, partner, partnership, prev, workspaceVars, documentVars, listVars>>

\* the caller, having assessed the risk of its partnership, raises one risk
\* input of the record and keeps the assessment to compare with the next
RaiseRiskInput ==
    /\ prev = NoCall
    /\ call.op = "calculateRiskAssessment"
    /\ call.partnership = partnership
    /\ \E f \in RiskFields \cap DOMAIN partnership, v \in Ratings :
          /\ v > partnership[f]
          /\ partnership' = [partnership EXCEPT ![f] = v]
    /\ prev' = call
    /\ call' = NoCall
    /\ UNCHANGED <<brand, partner, workspaceVars, documentVars, listVars>>

CalculateTaskProgress ==
    /\ call = NoCall
    /\ \E tasks \in {Array(ListOrEmpty(collaboration, "tasks")), Null} :
          call' = [op |-> "calculateTaskProgress", tasks |-> tasks,
                   ret |-> calculateTaskProgress(tasks)]
    /\ UNCHANGED <<assessmentVars, workspaceVars, documentVars, listVars>>

CalculateMilestoneProgress ==
    /\ call = NoCall
    /\ \E milestones \in {Array(ListOrEmpty(collaboration, "milestones")), Null} :
          call' = [op |-> "calculateMilestoneProgress", milestones |-> milestones,
                   ret |-> calculateMilestoneProgress(milestones)]
    /\ UNCHANGED <<assessmentVars, workspaceVars, documentVars, listVars>>

CalculateProgress ==
    /\ call = NoCall
    /\ \E c \in {collaboration, Null} :
          call' = [op |-> "calculateProgress", collaboration |-> c, now |-> now,
                   ret |-> calculateProgress(c, now)]
    /\ UNCHANGED <<assessmentVars, workspaceVars, documentVars, listVars>>

\* an operation of the ProjectManager on the collaboration the caller holds:
\* the call records the contents of the argument before the call
UpdateCollaboration ==
    /\ call = NoCall
    /\ \E c \in {collaboration, Null}, updates \in UpdateArguments :
          call' = [op |-> "updateCollaboration", list |-> "", collaboration |-> c,
                   before |-> Contents(c, arrays), updates |-> updates,
                   ret |-> updateCollaboration(c, updates, now)]
    /\ UNCHANGED <<assessmentVars, workspaceVars, documentVars, listVars>>

AddTask ==
    /\ call = NoCall
    /\ \E c \in {collaboration, Null}, item \in ItemArguments, id \in GeneratedIds :
          /\ call' = [op |-> "add", list |-> "tasks", collaboration |-> c,
                      before |-> Contents(c, arrays), item |-> item,
                      ret |-> addTask(c, item, id, now, arrays).ret]
          /\ arrays' = addTask(c, item, id, now, arrays).arrays
    /\ UNCHANGED <<assessmentVars, collaboration, now, documentVars, listVars>>

UpdateTask ==
    /\ call = NoCall
    /\ \E c \in {collaboration, Null}, itemId \in IdArguments, updates \in UpdateArguments :
          /\ call' = [op |-> "update", list |-> "tasks", collaboration |-> c,
                      before |-> Contents(c, arrays), itemId |-> itemId,
                      updates |-> updates,
                      ret |-> updateTask(c, itemId, updates, now, arrays).ret]
          /\ arrays' = updateTask(c, itemId, updates, now, arrays).arrays
    /\ UNCHANGED <<assessmentVars, collaboration, now, documentVars, listVars>>

DeleteTask ==
    /\ call = NoCall
    /\ \E c \in {collaboration, Null}, itemId \in IdArguments :
          /\ call' = [op |-> "delete", list |-> "tasks", collaboration |-> c,
                      before |-> Contents(c, arrays), itemId |-> itemId,
                      ret |-> deleteTask(c, itemId, now, arrays).ret]
          /\ arrays' = deleteTask(c, itemId, now, arrays).arrays
    /\ UNCHANGED <<assessmentVars, collaboration, now, documentVars, listVars>>

AddMilestone ==
    /\ call = NoCall
    /\ \E c \in {collaboration, Null}, item \in ItemArguments, id \in GeneratedIds :
          /\ call' = [op |-> "add", list |-> "milestones", collaboration |-> c,
                      before |-> Contents(c, arrays), item |-> item,
                      ret |-> addMilestone(c, item, id, now, arrays).ret]
          /\ arrays' = addMilestone(c, item, id, now, arrays).arrays
    /\ UNCHANGED <<assessmentVars, collaboration, now, documentVars, listVars>>

UpdateMilestone ==
    /\ call = NoCall
    /\ \E c \in {collaboration, Null}, itemId \in IdArguments, updates \in UpdateArguments :
          /\ call' = [op |-> "update", list |-> "milestones", collaboration |-> c,
                      before |-> Contents(c, arrays), itemId |-> itemId,
                      updates |-> updates,
                      ret |-> updateMilestone(c, itemId, updates, now, arrays).ret]
          /\ arrays' = updateMilestone(c, itemId, updates, now, arrays).arrays
    /\ UNCHANGED <<assessmentVars, collaboration, now, documentVars, listVars>>

DeleteMilestone ==
    /\ call = NoCall
    /\ \E c \in {collaboration, Null}, itemId \in IdArguments :
          /\ call' = [op |-> "delete", list |-> "milestones", collaboration |-> c,
                      before |-> Contents(c, arrays), itemId |-> itemId,
                      ret |-> deleteMilestone(c, itemId, now, arrays).ret]
          /\ arrays' = deleteMilestone(c, itemId, now, arrays).arrays
    /\ UNCHANGED <<assessmentVars, collaboration, now, documentVars, listVars>>

AddDocument ==
    /\ call = NoCall
    /\ \E c \in {collaboration, Null}, item \in ItemArguments, id \in GeneratedIds :
          /\ call' = [op |-> "add", list |-> "documents", collaboration |-> c,
                      before |-> Contents(c, arrays), item |-> item,
                      ret |-> addDocument(c, item, id, now, arrays).ret]
          /\ arrays' = addDocument(c, item, id, now, arrays).arrays
    /\ UNCHANGED <<assessmentVars, collaboration, now, documentVars, listVars>>

UpdateDocument ==
    /\ call = NoCall
    /\ \E c \in {collaboration, Null}, itemId \in IdArguments, updates \in UpdateArguments :
          /\ call' = [op |-> "update", list |-> "documents", collaboration |-> c,
                      before |-> Contents(c, arrays), itemId |-> itemId,
                      updates |-> updates,
                      ret |-> updateDocument(c, itemId, updates, now, arrays).ret]
          /\ arrays' = updateDocument(c, itemId, updates, now, arrays).arrays
    /\ UNCHANGED <<assessmentVars, collaboration, now, documentVars, listVars>>

DeleteDocument ==
    /\ call = NoCall
    /\ \E c \in {collaboration, Null}, itemId \in IdArguments :
          /\ call' = [op |-> "delete", list |-> "documents", collaboration |-> c,
                      before |-> Contents(c, arrays), itemId |-> itemId,
                      ret |-> deleteDocument(c, itemId, now, arrays).ret]
          /\ arrays' = deleteDocument(c, itemId, now, arrays).arrays
    /\ UNCHANGED <<assessmentVars, collaboration, now, documentVars, listVars>>

AddNote ==
    /\ call = NoCall
    /\ \E c \in {collaboration, Null}, item \in ItemArguments, id \in GeneratedIds :
          /\ call' = [op |-> "add", list |-> "notes", collaboration |-> c,
                      before |-> Contents(c, arrays), item |-> item,
                      ret |-> addNote(c, item, id, now, arrays).ret]
          /\ arrays' = addNote(c, item, id, now, arrays).arrays
    /\ UNCHANGED <<assessmentVars, collaboration, now, documentVars, listVars>>

UpdateNote ==
    /\ call = NoCall
    /\ \E c \in {collaboration, Null}, itemId \in IdArguments, updates \in UpdateArguments :
          /\ call' = [op |-> "update", list |-> "notes", collaboration |-> c,
                      before |-> Contents(c, arrays), itemId |-> itemId,
                      updates |-> updates,
                      ret |-> updateNote(c, itemId, updates, now, arrays).ret]
          /\ arrays' = updateNote(c, itemId, updates, now, arrays).arrays
    /\ UNCHANGED <<assessmentVars, collaboration, now, documentVars, listVars>>

DeleteNote ==
    /\ call = NoCall
    /\ \E c \in {collaboration, Null}, itemId \in IdArguments :
          /\ call' = [op |-> "delete", list |-> "notes", collaboration |-> c,
                      before |-> Contents(c, arrays), itemId |-> itemId,
                      ret |-> deleteNote(c, itemId, now, arrays).ret]
          /\ arrays' = deleteNote(c, itemId, now, arrays).arrays
    /\ UNCHANGED <<assessmentVars, collaboration, now, documentVars, listVars>>

\* the item in localStorage after a handler: that of its last saveData()
StoredAfter(stored, initialized) ==
    IF stored = <<>> THEN storage ELSE saveData(initialized, stored[1])

\* the user exports the document: the file is downloaded, the activity is
\* logged and the document is saved
ExportData ==
    /\ page.ready
    /\ now < MaxClock
    /\ \E id \in GeneratedIds :
          LET result == exportData(appData, id, now)
          IN  /\ download' = result.download
              /\ appData' = result.data
              /\ storage' = StoredAfter(result.stored, page.initialized)
    /\ call' = [op |-> "exportData", before |-> appData]
    /\ now' = now + 1
    /\ UNCHANGED <<assessmentVars, collaboration, arrays, fileInput, page, listVars>>

\* the user selects the file of the last export, or another file
SelectFile ==
    /\ page.ready
    /\ fileInput = NoFile
    /\ fileInput' \in ({download} \cup OtherFiles) \ {NoFile}
    /\ UNCHANGED <<assessmentVars, workspaceVars, appData, storage, download, page, call,
                   listVars>>

\* the user selects a file written by hand
SelectHandWrittenFile ==
    /\ page.ready
    /\ fileInput = NoFile
    /\ fileInput' \in HandWrittenFiles
    /\ UNCHANGED <<assessmentVars, workspaceVars, appData, storage, download, page, call,
                   listVars>>

\* the user imports the selected file and answers the confirmation; the call
\* records the document as it was before the export, when an export was the
\* call before, and the document and the item as they were before the import
ImportData ==
    /\ page.ready
    /\ now < MaxClock
    /\ fileInput # NoFile
    /\ \E confirmed \in BOOLEAN, card \in BOOLEAN, id \in GeneratedIds :
          LET result == importData(appData, fileInput, confirmed, card, id, now)
          IN  /\ appData' = result.data
              /\ storage' = StoredAfter(result.stored, page.initialized)
              /\ fileInput' = IF result.outcome = "imported" THEN NoFile ELSE fileInput
              /\ call' = [op |-> "importData", outcome |-> result.outcome,
                          file |-> fileInput,
                          before |-> IF call.op = "exportData" THEN call.before ELSE Null,
                          data |-> appData, item |-> storage]
    /\ now' = now + 1
    /\ UNCHANGED <<assessmentVars, collaboration, arrays, download, page, listVars>>

\* the browser loads the page: the DOMContentLoaded handler runs on the item
\* in localStorage
LoadPage ==
    /\ page.loads < MaxLoads
    /\ \E card \in BOOLEAN :
          LET result == loadPage(storage, card)
          IN  /\ appData' = result.data
              /\ storage' = StoredAfter(result.stored, result.initialized)
              /\ page' = [loads |-> page.loads + 1, initialized |-> result.initialized,
                          welcome |-> result.welcome, ready |-> result.ready,
                          found |-> storage # NoFile]
    /\ fileInput' = NoFile
    /\ call' = [op |-> "load"]
    /\ UNCHANGED <<assessmentVars, workspaceVars, download, listVars>>

\* a handler has run: the document, the item and the clock
Handled(op, result) ==
    /\ appData' = result.data
    /\ storage' = StoredAfter(result.stored, page.initialized)
    /\ call' = [op |-> op, data |-> appData, thrown |-> result.thrown]
    /\ now' = now + 1
    /\ UNCHANGED <<assessmentVars, collaboration, arrays, download, fileInput, page,
                   listVars>>

SaveProfile ==
    /\ page.ready
    /\ now < MaxClock
    /\ \E id \in GeneratedIds :
          Handled("saveProfile", saveProfile(appData, EnteredProfile, id, now))

SaveCollaboration ==
    /\ page.ready
    /\ now < MaxClock
    /\ \E id \in GeneratedIds :
          Handled("saveCollaboration",
                  saveCollaboration(appData, EnteredCollaboration, id, now))

SaveCustomMetric ==
    /\ page.ready
    /\ now < MaxClock
    /\ \E id \in GeneratedIds :
          Handled("saveCustomMetric", saveCustomMetric(appData, EnteredMetric, id, now))

DeleteCustomMetric ==
    /\ page.ready
    /\ now < MaxClock
    /\ \E metricId \in GeneratedIds, confirmed \in BOOLEAN, id \in GeneratedIds :
          Handled("deleteCustomMetric",
                  deleteCustomMetric(appData, metricId, confirmed, id, now))

UpdateTheme ==
    /\ page.ready
    /\ now < MaxClock
    /\ Handled("updateTheme", updateTheme(appData, "dark"))

UpdateFontSize ==
    /\ page.ready
    /\ now < MaxClock
    /\ Handled("updateFontSize", updateFontSize(appData, "large"))

UpdateCompactView ==
    /\ page.ready
    /\ now < MaxClock
    /\ Handled("updateCompactView", updateCompactView(appData, TRUE))

ClearData ==
    /\ page.ready
    /\ now < MaxClock
    /\ Handled("clearData", clearData)

\* the user presses Find Matches: the cards are shown and the activity logged
SearchPartners ==
    /\ page.ready
    /\ now < MaxClock
    /\ \E filters \in SearchFilters, id \in GeneratedIds :
          LET result == searchPartners(appData, filters, id, now)
          IN  /\ appData' = result.data
              /\ storage' = StoredAfter(result.stored, page.initialized)
              /\ call' = [op |-> "searchPartners", filters |-> filters,
                          shown |-> result.shown, data |-> appData,
                          thrown |-> result.thrown]
    /\ now' = now + 1
    /\ UNCHANGED <<assessmentVars, collaboration, arrays, download, fileInput, page,
                   listVars>>

FindMostPromisingPartners ==
    /\ call = NoCall
    /\ \E b \in {brand, Null}, list \in {Array(partners), Null}, limit \in LimitArguments :
          \E ret \in findMostPromisingPartners(b, list, limit) :
              call' = [op |-> "findMostPromisingPartners", brand |-> b, partners |-> list,
                       limit |-> limit, ret |-> ret]
    /\ UNCHANGED <<assessmentVars, workspaceVars, documentVars, listVars>>

GetRelatedResources ==
    /\ call = NoCall
    /\ \E list \in {Array(resources), Null},
          resource \in {resources[i] : i \in 1..Len(resources)} \cup FurtherResources
                       \cup {Null},
          limit \in LimitArguments :
          call' = [op |-> "getRelatedResources", resources |-> list, resource |-> resource,
                   limit |-> limit, ret |-> getRelatedResources(list, resource, limit)]
    /\ UNCHANGED <<assessmentVars, workspaceVars, documentVars, listVars>>

GetRecommendedResources ==
    /\ call = NoCall
    /\ \E list \in {Array(resources), Null}, profile \in {brand, Null},
          limit \in LimitArguments :
          call' = [op |-> "getRecommendedResources", resources |-> list,
                   profile |-> profile, limit |-> limit,
                   ret |-> getRecommendedResources(list, profile, limit)]
    /\ UNCHANGED <<assessmentVars, workspaceVars, documentVars, listVars>>

CalculateGeographyScore ==
    /\ call = NoCall
    /\ \E x \in GeographyArguments, y \in GeographyArguments :
          call' = [op |-> "calculateGeographyScore", x |-> x, y |-> y,
                   ret |-> calculateGeographyScore(x, y)]
    /\ UNCHANGED <<assessmentVars, workspaceVars, documentVars, listVars>>

CalculateSizeScore ==
    /\ call = NoCall
    /\ \E x \in SizeArguments, y \in SizeArguments :
          call' = [op |-> "calculateSizeScore", x |-> x, y |-> y,
                   ret |-> calculateSizeScore(x, y)]
    /\ UNCHANGED <<assessmentVars, workspaceVars, documentVars, listVars>>

CalculateValuesScore ==
    /\ call = NoCall
    /\ \E x \in OverlapArguments, y \in OverlapArguments :
          call' = [op |-> "calculateValuesScore", x |-> x, y |-> y,
                   ret |-> calculateValuesScore(x, y)]
    /\ UNCHANGED <<assessmentVars, workspaceVars, documentVars, listVars>>

CalculateObjectivesScore ==
    /\ call = NoCall
    /\ \E x \in OverlapArguments, y \in OverlapArguments :
          call' = [op |-> "calculateObjectivesScore", x |-> x, y |-> y,
                   ret |-> calculateObjectivesScore(x, y)]
    /\ UNCHANGED <<assessmentVars, workspaceVars, documentVars, listVars>>

\* one step of partnerProfiles.map in generateSamplePartnership: the score of
\* the brand profile with a sample partner
ScoreSamplePartner ==
    /\ call = NoCall
    /\ \E i \in 1..Len(partnerProfiles) :
          call' = [op |-> "DataManager.calculateCompatibilityScore", brand1 |-> brand,
                   brand2 |-> partnerProfiles[i],
                   ret |-> dataCalculateCompatibilityScore(brand, partnerProfiles[i])]
    /\ UNCHANGED <<assessmentVars, workspaceVars, documentVars, listVars>>

(***************************************************************************)
(* Specifications: one per group of operations, each over the inputs of    *)
(* its operations.                                                         *)
(***************************************************************************)
\* no assessment, and no workspace, in hand
AssessmentIdle ==
    /\ brand = Null
    /\ partner = Null
    /\ partnership = Null
    /\ prev = NoCall
WorkspaceIdle ==
    /\ collaboration = Null
    /\ now = 0
    /\ arrays = <<>>
DocumentIdle ==
    /\ appData = Null
    /\ storage = NoFile
    /\ download = NoFile
    /\ fileInput = NoFile
    /\ page = NoPage
ListsIdle ==
    /\ partners = <<>>
    /\ resources = <<>>

MatchInit ==
    /\ brand \in Brands
    /\ partner \in Partners
    /\ partnership = Null
    /\ call = NoCall
    /\ prev = NoCall
    /\ WorkspaceIdle
    /\ DocumentIdle
    /\ ListsIdle
MatchNext == CalculateCompatibilityScore \/ GenerateCompatibilityReport
SpecMatch == MatchInit /\ [][MatchNext]_vars

FinancialInit ==
    /\ brand = Null
    /\ partner = Null
    /\ partnership \in FinancialInputs
    /\ call = NoCall
    /\ prev = NoCall
    /\ WorkspaceIdle
    /\ DocumentIdle
    /\ ListsIdle
FinancialNext == CalculateFinancialROI
SpecFinancial == FinancialInit /\ [][FinancialNext]_vars

ScoresInit ==
    /\ brand = Null
    /\ partner = Null
    /\ partnership \in ScoreInputs
    /\ call = NoCall
    /\ prev = NoCall
    /\ WorkspaceIdle
    /\ DocumentIdle
    /\ ListsIdle
ScoresNext == CalculateStrategicValue \/ CalculateRiskAssessment \/ RaiseRiskInput
SpecScores == ScoresInit /\ [][ScoresNext]_vars

ROIInit ==
    /\ brand = Null
    /\ partner = Null
    /\ partnership \in ROIInputs
    /\ call = NoCall
    /\ prev = NoCall
    /\ WorkspaceIdle
    /\ DocumentIdle
    /\ ListsIdle
ROINext == CalculatePartnershipROI
SpecROI == ROIInit /\ [][ROINext]_vars


ProgressInit ==
    /\ AssessmentIdle
    /\ call = NoCall
    /\ collaboration \in ProgressInputs
    /\ now \in IF "endDate" \in DOMAIN collaboration THEN NowTimes ELSE {0}
    /\ arrays = <<>>
    /\ DocumentIdle
    /\ ListsIdle
ProgressNext == CalculateTaskProgress \/ CalculateMilestoneProgress \/ CalculateProgress
SpecProgress == ProgressInit /\ [][ProgressNext]_vars

WorkspaceInit ==
    /\ AssessmentIdle
    /\ call = NoCall
    /\ \E c \in WorkspaceInputs :
          /\ collaboration = ObjectOf(c)
          /\ arrays = HeapOf(c)
    /\ now \in {2, 3}
    /\ DocumentIdle
    /\ ListsIdle
WorkspaceNext ==
    \/ UpdateCollaboration
    \/ AddTask \/ UpdateTask \/ DeleteTask
    \/ AddMilestone \/ UpdateMilestone \/ DeleteMilestone
    \/ AddDocument \/ UpdateDocument \/ DeleteDocument
    \/ AddNote \/ UpdateNote \/ DeleteNote
SpecWorkspace == WorkspaceInit /\ [][WorkspaceNext]_vars

DocumentInit ==
    /\ AssessmentIdle
    /\ collaboration = Null
    /\ arrays = <<>>
    /\ call = NoCall
    /\ now = 2
    /\ appData \in Documents
    /\ storage = SavedItem(appData)
    /\ download = NoFile
    /\ fileInput = NoFile
    /\ page = LoadedPage
    /\ ListsIdle
DocumentNext == ExportData \/ SelectFile \/ ImportData
SpecDocument == DocumentInit /\ [][DocumentNext]_vars

RankingInit ==
    /\ brand \in RankingBrands
    /\ partner = Null
    /\ partnership = Null
    /\ prev = NoCall
    /\ call = NoCall
    /\ WorkspaceIdle
    /\ DocumentIdle
    /\ partners \in PartnerLists
    /\ resources = <<>>
RankingNext == FindMostPromisingPartners
SpecRanking == RankingInit /\ [][RankingNext]_vars

LibraryInit ==
    /\ brand \in LibraryProfiles
    /\ partner = Null
    /\ partnership = Null
    /\ prev = NoCall
    /\ call = NoCall
    /\ WorkspaceIdle
    /\ DocumentIdle
    /\ partners = <<>>
    /\ resources \in Catalogs
LibraryNext == GetRelatedResources \/ GetRecommendedResources
SpecLibrary == LibraryInit /\ [][LibraryNext]_vars

SymmetryInit ==
    /\ brand \in SymmetryProfiles
    /\ partner \in SymmetryProfiles
    /\ partnership = Null
    /\ call = NoCall
    /\ prev = NoCall
    /\ WorkspaceIdle
    /\ DocumentIdle
    /\ ListsIdle
SymmetryNext ==
    \/ CalculateGeographyScore
    \/ CalculateSizeScore
    \/ CalculateValuesScore
    \/ CalculateObjectivesScore
    \/ CalculateCompatibilityScore
SpecSymmetry == SymmetryInit /\ [][SymmetryNext]_vars

SamplePartnersInit ==
    /\ brand \in SavedProfiles
    /\ partner = Null
    /\ partnership = Null
    /\ call = NoCall
    /\ prev = NoCall
    /\ WorkspaceIdle
    /\ DocumentIdle
    /\ ListsIdle
SamplePartnersNext == ScoreSamplePartner
SpecSamplePartners == SamplePartnersInit /\ [][SamplePartnersNext]_vars

\* a browser opens the application, for the first time or with the item of an
\* earlier visit
AppInit ==
    /\ AssessmentIdle
    /\ collaboration = Null
    /\ arrays = <<>>
    /\ call = NoCall
    /\ now = 3
    /\ appData = Null
    /\ storage \in {NoFile} \cup {SavedItem(d) : d \in StoredDocuments}
    /\ download = NoFile
    /\ fileInput = NoFile
    /\ page = NoPage
    /\ ListsIdle
AppNext ==
    \/ LoadPage
    \/ SaveProfile
    \/ SaveCollaboration
    \/ SaveCustomMetric
    \/ DeleteCustomMetric
    \/ UpdateTheme
    \/ UpdateFontSize
    \/ UpdateCompactView
    \/ ExportData
    \/ SelectHandWrittenFile
    \/ ImportData
    \/ ClearData
SpecApp == AppInit /\ [][AppNext]_vars

\* the partner search of a loaded page
SearchInit ==
    /\ AssessmentIdle
    /\ collaboration = Null
    /\ arrays = <<>>
    /\ call = NoCall
    /\ now = 3
    /\ appData \in StoredDocuments \cup {EmptyData}
    /\ storage = SavedItem(appData)
    /\ download = NoFile
    /\ fileInput = NoFile
    /\ page = LoadedPage
    /\ ListsIdle
SearchNext == SearchPartners
SpecSearch == SearchInit /\ [][SearchNext]_vars

(***************************************************************************)
(* A sequence of task operations, each applied to the collaboration the    *)
(* previous one returned. Every operation reads the clock once; the clock  *)
(* has advanced between two operations.                                    *)
(***************************************************************************)
TaskStep(op, result) ==
    /\ now < MaxClock
    /\ call' = [op |-> op, list |-> "tasks", collaboration |-> collaboration,
                before |-> Contents(collaboration, arrays), ret |-> result.ret]
    /\ collaboration' = result.ret
    /\ arrays' = result.arrays
    /\ now' = now + 1
    /\ UNCHANGED <<assessmentVars, documentVars, listVars>>

ThenAddTask ==
    \E task \in TaskArguments :
        TaskStep("add", addTask(collaboration, task, GeneratedIdAt(now), now, arrays))
ThenUpdateTask ==
    \E taskId \in TaskIdArguments, updates \in TaskUpdateArguments :
        TaskStep("update", updateTask(collaboration, taskId, updates, now, arrays))
ThenDeleteTask ==
    \E taskId \in TaskIdArguments :
        TaskStep("delete", deleteTask(collaboration, taskId, now, arrays))

TasksInit ==
    /\ AssessmentIdle
    /\ call = NoCall
    /\ collaboration = ObjectOf(NewCollaboration)
    /\ arrays = HeapOf(NewCollaboration)
    /\ now = 1
    /\ DocumentIdle
    /\ ListsIdle
TasksNext == ThenAddTask \/ ThenUpdateTask \/ ThenDeleteTask
SpecTasks == TasksInit /\ [][TasksNext]_vars
(***************************************************************************)
(* Properties of the partner matcher (SpecMatch)                           *)
(***************************************************************************)
ScoreCalled ==
    call.op = "calculateCompatibilityScore" /\ ~IsNull(call.brand1) /\ ~IsNull(call.brand2)

NoDuplicates(arr) == \A i, j \in 1..Len(arr) : arr[i] = arr[j] => i = j
\* the profile's values and partnership.objectives are arrays without duplicates
HasSets(b) ==
    /\ "values" \in DOMAIN b /\ NoDuplicates(b.values)
    /\ "partnership" \in DOMAIN b /\ "objectives" \in DOMAIN b.partnership
    /\ NoDuplicates(b.partnership.objectives)
\* industry, geographicFocus and companySize are present, non-empty strings
HasStrings(b) ==
    \A f \in {"industry", "geographicFocus", "companySize"} : f \in DOMAIN b /\ b[f] # ""

\* C1: for non-absent profiles whose values and objectives are sets, the
\* compatibility score is a whole number from 0 to 100.
C1_ScoreIsPercentage ==
    (ScoreCalled /\ HasSets(call.brand1) /\ HasSets(call.brand2))
        => (call.ret.kind = "number" /\ call.ret.val \in 0..100)

\* C2, as stated: a profile with industry, geographicFocus and companySize
\* scores 100 against itself, whatever its values and objectives contain.
C2_SelfScoreIs100 ==
    (ScoreCalled /\ call.brand2 = call.brand1 /\ HasStrings(call.brand1))
        => (call.ret.kind = "number" /\ call.ret.val = 100)

\* C2, amended: a profile with industry, geographicFocus and companySize, and
\* with a non-empty values array and a non-empty objectives array, scores 100
\* against itself.
C2_SelfScoreIs100WithValuesAndObjectives ==
    (/\ ScoreCalled /\ call.brand2 = call.brand1 /\ HasStrings(call.brand1)
     /\ "values" \in DOMAIN call.brand1 /\ call.brand1.values # <<>>
     /\ ObjectivesOrEmpty(call.brand1)[1] # <<>>)
        => (call.ret.kind = "number" /\ call.ret.val = 100)

\* a profile whose industry is a name every object inherits, with values and
\* objectives, has been scored against itself
C2_Witness ==
    /\ ScoreCalled /\ call.brand2 = call.brand1 /\ HasStrings(call.brand1)
    /\ call.brand1.industry = "constructor"
    /\ "values" \in DOMAIN call.brand1 /\ Len(call.brand1.values) = MaxLen
    /\ ObjectivesOrEmpty(call.brand1)[1] # <<>>
    /\ call.ret.val = 100

\* the sub-scores as the claim C3 words them, in tenths: 10 when equal, the
\* table's entry when there is one, the default otherwise
ClaimedIndustry(a, b) ==
    IF a.industry = b.industry THEN 10
    ELSE IF a.industry \in DOMAIN complementaryIndustries
            /\ Includes(complementaryIndustries[a.industry], b.industry) THEN 7
    ELSE 3
ClaimedMatrix(matrix, x, y, default) ==
    IF x = y THEN 10
    ELSE IF x \in DOMAIN matrix /\ y \in DOMAIN matrix[x] THEN matrix[x][y]
    ELSE default
\* the shared elements and the smaller size of two sets given as arrays; 0 of
\* 1 when either is empty
Range(arr) == {arr[i] : i \in 1..Len(arr)}
Shared(x, y) == IF x = <<>> \/ y = <<>> THEN 0 ELSE Cardinality(Range(x) \cap Range(y))
Smaller(x, y) == IF x = <<>> \/ y = <<>> THEN 1 ELSE Min(Len(x), Len(y))
\* round(20*I + 25*V + 25*O + 15*G + 15*S) in exact arithmetic: the sum is
\* n / (2 * d) for the whole numbers n and d below
ClaimedScore(a, b) ==
    LET d == Smaller(a.values, b.values)
             * Smaller(a.partnership.objectives, b.partnership.objectives)
        n == (4 * ClaimedIndustry(a, b)
              + 3 * ClaimedMatrix(geographyMatrix, a.geographicFocus, b.geographicFocus, 3)
              + 3 * ClaimedMatrix(sizeMatrix, a.companySize, b.companySize, 5)) * d
             + 50 * Shared(a.values, b.values)
                  * Smaller(a.partnership.objectives, b.partnership.objectives)
             + 50 * Shared(a.partnership.objectives, b.partnership.objectives)
                  * Smaller(a.values, b.values)
    IN  (n + d) \div (2 * d)

\* C3: for profiles whose string fields are non-empty and whose values and
\* objectives are sets, the score is round(20*I + 25*V + 25*O + 15*G + 15*S)
\* with the sub-scores of the tables and their defaults.
C3_ScoreIsRoundedWeightedSum ==
    (/\ ScoreCalled
     /\ HasStrings(call.brand1) /\ HasStrings(call.brand2)
     /\ HasSets(call.brand1) /\ HasSets(call.brand2))
        => (call.ret.kind = "number" /\ call.ret.val = ClaimedScore(call.brand1, call.brand2))

\* C4: calculateCompatibilityScore returns 0 when either profile is absent,
\* and generateCompatibilityReport returns null; neither throws.
C4_AbsentProfileGivesZeroOrNull ==
    /\ (call.op = "calculateCompatibilityScore" /\ (IsNull(call.brand1) \/ IsNull(call.brand2)))
           => call.ret = [kind |-> "number", val |-> 0]
    /\ (call.op = "generateCompatibilityReport" /\ (IsNull(call.brand1) \/ IsNull(call.brand2)))
           => call.ret = [kind |-> "null"]

\* a score has been asked of a profile and an absent second profile
C4_Witness ==
    /\ call.op = "calculateCompatibilityScore"
    /\ ~IsNull(call.brand1) /\ IsNull(call.brand2)
    /\ call.ret.val = 0

(***************************************************************************)
(* Properties of the financial ROI (SpecFinancial)                         *)
(***************************************************************************)
FinancialCalled == call.op = "calculateFinancialROI"
\* the timeframe of the call: the argument, or the default of a year
MonthsOf(c) == IF c.months = <<>> THEN 12 ELSE c.months[1]
\* a field of a record, 0 when absent
FieldOr0(r, f) == IF f \in DOMAIN r THEN r[f] ELSE 0

ClaimedInvestment(i) ==
    FieldOr0(i, "directCosts") + FieldOr0(i, "staffHours") * FieldOr0(i, "hourlyRate")
    + FieldOr0(i, "resourceAllocation") + FieldOr0(i, "marketingCosts")
    + FieldOr0(i, "technologyCosts") + FieldOr0(i, "otherCosts")
ClaimedReturns(r, months) ==
    FieldOr0(r, "directRevenue") * months + FieldOr0(r, "costSavings") * months
    + FieldOr0(r, "newCustomers") * FieldOr0(r, "customerLTV")
    + FieldOr0(r, "marketShareIncrease") * FieldOr0(r, "marketShareValue")
    + FieldOr0(r, "otherReturns")

\* C5: with an investment record, a returns record and a timeframe above 0,
\* the metrics are the stated sums, their difference, and 100 * netReturn /
\* totalInvestment (0 when totalInvestment is 0); 1000 of direct costs and
\* 200 of monthly revenue over 12 months give 1000, 2400, 1400 and 140.
C5_FinancialMetrics ==
    (FinancialCalled /\ ~IsNull(call.investment) /\ ~IsNull(call.returns) /\ MonthsOf(call) > 0)
        => LET inv == ClaimedInvestment(call.investment)
               rtn == ClaimedReturns(call.returns, MonthsOf(call))
               roi == call.ret.roiPercentage
           IN  /\ call.ret.kind = "object"
               /\ call.ret.totalInvestment = inv
               /\ call.ret.totalReturns = rtn
               /\ call.ret.netReturn = rtn - inv
               /\ roi.d > 0
               /\ IF inv = 0 THEN roi.n = 0 ELSE roi.n * inv = 100 * (rtn - inv) * roi.d
               /\ (/\ call.investment = [directCosts |-> 1000]
                   /\ call.returns = [directRevenue |-> 200]
                   /\ MonthsOf(call) = 12)
                      => (inv = 1000 /\ rtn = 2400 /\ rtn - inv = 1400 /\ roi.n = 140 * roi.d)

\* the example of the documentation has been computed
C5_Witness ==
    /\ FinancialCalled
    /\ call.investment = [directCosts |-> 1000]
    /\ call.returns = [directRevenue |-> 200]
    /\ call.months = <<12>>
    /\ call.ret.kind = "object"
    /\ call.ret.netReturn = 1400

\* C6: calculateFinancialROI returns null exactly when the investment is
\* absent, the returns are absent or the timeframe is 0 or less, and a
\* metrics record otherwise.
C6_NullExactlyOnInvalidInput ==
    FinancialCalled
        => /\ call.ret.kind \in {"null", "object"}
           /\ call.ret.kind = "null"
                 <=> (IsNull(call.investment) \/ IsNull(call.returns) \/ MonthsOf(call) <= 0)

\* both records given, a timeframe of 0 months refused
C6_Witness ==
    /\ FinancialCalled
    /\ ~IsNull(call.investment) /\ ~IsNull(call.returns)
    /\ call.months = <<0>>
    /\ call.ret.kind = "null"

(***************************************************************************)
(* Properties of the overall assessment (SpecROI)                          *)
(***************************************************************************)
PartnershipROICalled == call.op = "calculatePartnershipROI"

\* C7: calculatePartnershipROI never throws; it returns null or an
\* assessment record for every partnership.
C7_PartnershipROINeverThrows ==
    PartnershipROICalled => call.ret.kind \in {"null", "object"}

\* the financial component as the claim C8 words it
ClaimedFinancialComponent(roi) ==
    IF roi.n > 200 * roi.d THEN 40
    ELSE IF roi.n > 100 * roi.d THEN 30
    ELSE IF roi.n > 50 * roi.d THEN 20
    ELSE IF roi.n > 0 THEN 10
    ELSE 0
ClaimedRecommendation(score) ==
    IF score >= 80 THEN "Strongly Recommended"
    ELSE IF score >= 60 THEN "Recommended"
    ELSE IF score >= 40 THEN "Consider with Modifications"
    ELSE "Not Recommended"

\* C8: when the financial ROI is defined, overallScore is the whole number
\* nearest to F + 0.4 * strategic value + 0.2 * (100 - overall risk), with F
\* the step function of roiPercentage, and the recommendation follows the
\* bands 80, 60 and 40. The sum is a whole number of fifths and never a half.
C8_OverallScoreAndRecommendation ==
    (PartnershipROICalled /\ call.ret.kind = "object")
        => LET fifths == 5 * ClaimedFinancialComponent(call.ret.financialROI.roiPercentage)
                         + 2 * call.ret.strategicValue.overallScore
                         + (100 - call.ret.riskAssessment.overallRisk)
           IN  /\ 5 * call.ret.overallScore - fifths \in -2..2
               /\ call.ret.recommendation = ClaimedRecommendation(call.ret.overallScore)

\* an assessment with an ROI of exactly 200 percent that is recommended
C8_Witness ==
    /\ PartnershipROICalled /\ call.ret.kind = "object"
    /\ call.ret.financialROI.roiPercentage.n = 200 * call.ret.financialROI.roiPercentage.d
    /\ call.ret.recommendation = "Recommended"

(***************************************************************************)
(* Properties of the strategic value and the risk assessment (SpecScores)  *)
(***************************************************************************)
StrategicValued == call.op = "calculateStrategicValue" /\ call.ret.kind = "object"
RiskAssessed == call.op = "calculateRiskAssessment" /\ call.ret.kind = "object"

\* the most points each input may contribute, as the code's comments declare
declaredMaximum ==
    [audienceReach |-> 60, audienceOverlap |-> 20, audienceEngagement |-> 20,
     brandAlignment |-> 50, reputationEnhancement |-> 30, brandVisibility |-> 20,
     innovationPotential |-> 50, technologyAccess |-> 30, ipCreation |-> 20,
     newMarketAccess |-> 50, channelExpansion |-> 30, competitiveAdvantage |-> 20,
     strategicAlignment |-> 50, longTermPotential |-> 40, ecosystemIntegration |-> 10,
     investmentSize |-> 50, revenueUncertainty |-> 30, costOverrunRisk |-> 20,
     partnerReputationRisk |-> 60, brandAlignmentRisk |-> 40,
     integrationComplexity |-> 50, resourceConflictRisk |-> 30, timelineRisk |-> 20,
     goalMisalignmentRisk |-> 50, dependencyRisk |-> 40, competitiveDisclosureRisk |-> 10]

\* the scores of the last call: its dimension scores, then its overall score
ScoresOf(c) ==
    IF c.op = "calculateStrategicValue"
    THEN <<c.ret.dimensionScores.audience, c.ret.dimensionScores.brand,
           c.ret.dimensionScores.innovation, c.ret.dimensionScores.marketAccess,
           c.ret.dimensionScores.relationship, c.ret.overallScore>>
    ELSE <<c.ret.riskScores.financial, c.ret.riskScores.reputation,
           c.ret.riskScores.operational, c.ret.riskScores.strategic, c.ret.overallRisk>>
\* the fields of the record that the call's dimensions read
FieldsRead(c) ==
    DOMAIN c.partnership
        \cap (IF c.op = "calculateStrategicValue" THEN StrategicFields ELSE RiskFields)

\* C9: every dimension score and overall score of calculateStrategicValue
\* and calculateRiskAssessment is from 0 to 100, whatever the ratings, and
\* an input contributes at most its declared maximum: a record with a single
\* input scores at most that maximum in every dimension.
C9_ScoresWithinRangeAndCapped ==
    (StrategicValued \/ RiskAssessed)
        => /\ \A i \in DOMAIN ScoresOf(call) : ScoresOf(call)[i] \in 0..100
           /\ \A f \in FieldsRead(call) :
                  DOMAIN call.partnership = {f}
                      => \A i \in DOMAIN ScoresOf(call) : ScoresOf(call)[i] <= declaredMaximum[f]

\* the risk level bands in order
BandRank(level) ==
    CASE level = "Low" -> 0 [] level = "Moderate" -> 1
      [] level = "High" -> 2 [] level = "Critical" -> 3

\* the record q equals the record p except for one risk input, which is 0 or
\* more in p and larger in q
OneRiskInputRaised(p, q) ==
    /\ DOMAIN p = DOMAIN q
    /\ \E f \in RiskFields \cap DOMAIN p :
          /\ p[f] >= 0
          /\ q[f] > p[f]
          /\ \A g \in DOMAIN p \ {f} : q[g] = p[g]

Reassessed ==
    /\ prev.op = "calculateRiskAssessment" /\ prev.ret.kind = "object"
    /\ RiskAssessed
    /\ OneRiskInputRaised(prev.partnership, call.partnership)

\* C10: raising one risk input that is 0 or more lowers neither the overall
\* risk nor the risk level band.
C10_RiskIsMonotonic ==
    Reassessed
        => /\ call.ret.overallRisk >= prev.ret.overallRisk
           /\ BandRank(call.ret.riskLevel) >= BandRank(prev.ret.riskLevel)

\* one raised input has moved the assessment from Moderate to High
C10_Witness ==
    /\ Reassessed
    /\ prev.ret.riskLevel = "Moderate"
    /\ call.ret.riskLevel = "High"

\* the advice a dimension's score selects, as the claim C11 words it
ClaimedAdvice(score, name) ==
    IF score >= 60 THEN highRiskAdvice[name]
    ELSE IF score \in 30..59 THEN moderateRiskAdvice[name]
    ELSE <<>>
\* the four dimension scores of an assessment, by the names of the advice
DimensionRisks(ret) ==
    [financialRisk |-> ret.riskScores.financial, reputationRisk |-> ret.riskScores.reputation,
     operationalRisk |-> ret.riskScores.operational, strategicRisk |-> ret.riskScores.strategic]

\* C11: overallRisk is the mean of the four dimension scores rounded to the
\* nearest whole number (halves upwards); riskLevel is Low below 25, Moderate
\* below 50, High below 75 and Critical otherwise; each dimension adds its
\* two severe recommendations at 60 or more, its two moderate ones from 30 to
\* 59 and none below, so there are twice as many recommendations as
\* dimensions with a score of 30 or more.
C11_RiskLevelAndRecommendations ==
    RiskAssessed
        => LET r == DimensionRisks(call.ret)
               sum == r.financialRisk + r.reputationRisk + r.operationalRisk + r.strategicRisk
               o == call.ret.overallRisk
           IN  /\ sum - 4 * o \in -2..1
               /\ call.ret.riskLevel = (IF o < 25 THEN "Low" ELSE IF o < 50 THEN "Moderate"
                                        ELSE IF o < 75 THEN "High" ELSE "Critical")
               /\ call.ret.recommendations =
                      ClaimedAdvice(r.financialRisk, "financialRisk")
                      \o ClaimedAdvice(r.reputationRisk, "reputationRisk")
                      \o ClaimedAdvice(r.operationalRisk, "operationalRisk")
                      \o ClaimedAdvice(r.strategicRisk, "strategicRisk")
               /\ Len(call.ret.recommendations)
                      = 2 * Cardinality({d \in DOMAIN r : r[d] >= 30})

\* an assessment with a severe dimension, a moderate one and one of exactly 30
C11_Witness ==
    /\ RiskAssessed
    /\ call.ret.riskScores.financial >= 60
    /\ call.ret.riskScores.reputation \in 31..59
    /\ call.ret.riskScores.strategic = 30
    /\ Len(call.ret.recommendations) = 8


TaskProgressCalled == call.op = "calculateTaskProgress"
MilestoneProgressCalled == call.op = "calculateMilestoneProgress"
\* the items of the argument of a progress call: none when it is not an array
ItemsOf(arg) == IF IsArray(arg) THEN arg.array ELSE <<>>
\* the number of items with the status s
WithStatus(items, s) ==
    Cardinality({i \in 1..Len(items) : "status" \in DOMAIN items[i] /\ items[i].status = s})

\* C12: calculateTaskProgress returns the number of tasks as total, the
\* numbers of completed, in-progress and pending tasks, and as
\* progressPercentage 100 * (completed + inProgress / 2) / total rounded to
\* the nearest whole number (halves upwards), or 0 when the list is empty or
\* the argument is not an array; cancelled tasks count in total only.
C12_TaskProgress ==
    TaskProgressCalled
        => LET items == ItemsOf(call.tasks)
               c == WithStatus(items, "completed")
               i == WithStatus(items, "in-progress")
           IN  /\ call.ret.total = Len(items)
               /\ call.ret.completed = c
               /\ call.ret.inProgress = i
               /\ call.ret.pending = WithStatus(items, "pending")
               /\ call.ret.progressPercentage =
                      IF Len(items) = 0 THEN 0 ELSE Round(100 * (2 * c + i), 2 * Len(items))

\* C13: calculateMilestoneProgress returns the numbers of completed, pending
\* and missed milestones and as progressPercentage 100 * completed / total
\* rounded to the nearest whole number (halves upwards); for the empty list
\* every count and the percentage are 0.
C13_MilestoneProgress ==
    MilestoneProgressCalled
        => LET items == ItemsOf(call.milestones)
               c == WithStatus(items, "completed")
           IN  /\ call.ret.total = Len(items)
               /\ call.ret.completed = c
               /\ call.ret.pending = WithStatus(items, "pending")
               /\ call.ret.missed = WithStatus(items, "missed")
               /\ call.ret.progressPercentage =
                      IF Len(items) = 0 THEN 0 ELSE Round(100 * c, Len(items))

\* calculateProgress was called with a collaboration
ProgressCalled == call.op = "calculateProgress" /\ ~IsNull(call.collaboration)
\* every item of the list f of the collaboration is completed
AllCompleted(c, f) ==
    /\ f \in DOMAIN c
    /\ Len(c[f]) > 0
    /\ WithStatus(c[f], "completed") = Len(c[f])
\* overallProgress is the weighted sum of the two percentages, rounded, in 0..100
WeightedAndBounded(ret) ==
    /\ ret.overallProgress = Round(6 * ret.taskStats.progressPercentage
                                   + 4 * ret.milestoneStats.progressPercentage, 10)
    /\ ret.overallProgress \in 0..100

\* C14: overallProgress is 0.6 * taskProgress + 0.4 * milestoneProgress rounded
\* to the nearest whole number, lies in 0..100, and is 100 only if the
\* collaboration has a task and a milestone and all of them are completed.
C14_OverallProgress ==
    ProgressCalled
        => /\ WeightedAndBounded(call.ret)
           /\ call.ret.overallProgress = 100
                  => /\ AllCompleted(call.collaboration, "tasks")
                     /\ AllCompleted(call.collaboration, "milestones")

\* C14, amended: overallProgress is the rounded weighted sum, lies in 0..100,
\* and is 100 only if the collaboration has a task and a milestone, the task
\* percentage is 100 and the milestone percentage is 99 or 100.
C14_OverallProgressByPercentages ==
    ProgressCalled
        => /\ WeightedAndBounded(call.ret)
           /\ call.ret.overallProgress = 100
                  => /\ call.ret.taskStats.total > 0
                     /\ call.ret.milestoneStats.total > 0
                     /\ call.ret.taskStats.progressPercentage = 100
                     /\ call.ret.milestoneStats.progressPercentage >= 99

\* an overall progress of 100 with a milestone that is not completed
C14_Witness ==
    /\ ProgressCalled
    /\ call.ret.overallProgress = 100
    /\ call.ret.milestoneStats.completed < call.ret.milestoneStats.total

\* the progress the schedule of the collaboration of the call expects of it
ExpectedOfCall ==
    ExpectedProgress(Prop(call.collaboration, "startDate"), call.collaboration.endDate,
                     call.ret.daysRemaining[1])

\* C15: calculateProgress never returns the status 'At Risk': whatever the
\* collaboration and the current date, the status is 'On Track' or 'Behind
\* Schedule' (and 'On Track' without a deadline), the status 'At Risk' being
\* tested only after 'Behind Schedule' was ruled out.
C15_NeverAtRisk ==
    ProgressCalled
        => /\ call.ret.status \in {"On Track", "Behind Schedule"}
           /\ call.ret.daysRemaining = <<>> => call.ret.status = "On Track"

\* a collaboration more than 20 points behind its schedule is 'Behind Schedule'
C15_Witness ==
    /\ ProgressCalled
    /\ call.ret.daysRemaining # <<>>
    /\ BelowExpected(call.ret.overallProgress, ExpectedOfCall, 20)
    /\ call.ret.status = "Behind Schedule"

\* C29: a collaboration whose tasks and milestones are all completed, so that
\* its overallProgress is 100, has the status 'On Track' whatever its start
\* date, its end date and the current date, current dates after the end date
\* included.
C29_CompletedIsOnTrack ==
    (/\ ProgressCalled
     /\ AllCompleted(call.collaboration, "tasks")
     /\ AllCompleted(call.collaboration, "milestones"))
        => /\ call.ret.overallProgress = 100
           /\ call.ret.status = "On Track"

\* an operation of the ProjectManager was called
OperationCalled == call.op \in {"updateCollaboration", "add", "update", "delete"}

\* C16: no operation of the ProjectManager mutates the collaboration it is
\* given: after the call the argument, with the contents of its tasks,
\* milestones, documents and notes arrays, is what it was before the call.
C16_InputNotMutated ==
    OperationCalled => Contents(call.collaboration, arrays) = call.before

\* an update operation that found its record: the collaboration itself, or the
\* first item of the list with the given id
Updated ==
    /\ call.op \in {"updateCollaboration", "update"}
    /\ ~IsNull(call.collaboration)
    /\ ~IsNull(call.updates)
    /\ call.op = "update"
          => /\ call.list \in DOMAIN call.before
             /\ \E i \in 1..Len(call.before[call.list]) :
                   call.before[call.list][i].id = call.itemId
\* the position of the updated item in its list
UpdatedIndex ==
    CHOOSE i \in 1..Len(call.before[call.list]) :
        /\ call.before[call.list][i].id = call.itemId
        /\ \A j \in 1..(i - 1) : call.before[call.list][j].id # call.itemId
\* the record before the update, and after it
OriginalRecord ==
    IF call.op = "update" THEN call.before[call.list][UpdatedIndex] ELSE call.before
UpdatedRecord ==
    IF call.op = "update" THEN arrays[call.ret[call.list].ref][UpdatedIndex]
    ELSE Contents(call.ret, arrays)
\* the other items of the list are as before, at their positions
OthersKept ==
    call.op = "update"
        => LET after == arrays[call.ret[call.list].ref]
               before == call.before[call.list]
           IN  /\ Len(after) = Len(before)
               /\ \A j \in 1..Len(before) : j # UpdatedIndex => after[j] = before[j]
\* id and createdAt are those of the original record
IdentityKept ==
    /\ UpdatedRecord.id = OriginalRecord.id
    /\ UpdatedRecord.createdAt = OriginalRecord.createdAt

\* C17: an update keeps the id and the createdAt of the record, whatever the
\* updates hold, applies every other key of the updates, and leaves the other
\* items of the list unchanged at their positions.
C17_UpdateAppliesEveryOtherKey ==
    Updated
        => /\ IdentityKept
           /\ \A k \in (DOMAIN call.updates) \ {"id", "createdAt"} :
                 UpdatedRecord[k] = call.updates[k]
           /\ OthersKept

\* C17, amended: an update keeps the id and the createdAt of the record,
\* applies every key of the updates other than id, createdAt and updatedAt,
\* sets updatedAt to the current time, keeps every other property of the
\* record, and leaves the other items of the list unchanged at their positions.
C17_UpdateAppliesKeysButUpdatedAt ==
    Updated
        => /\ IdentityKept
           /\ \A k \in (DOMAIN call.updates) \ {"id", "createdAt", "updatedAt"} :
                 UpdatedRecord[k] = call.updates[k]
           /\ UpdatedRecord.updatedAt = now
           /\ \A k \in (DOMAIN OriginalRecord) \ (DOMAIN call.updates \cup {"updatedAt"}) :
                 UpdatedRecord[k] = OriginalRecord[k]
           /\ OthersKept

\* an item updated with an id, a createdAt and a title in the updates, beside
\* another item
C17_Witness ==
    /\ Updated
    /\ call.op = "update"
    /\ {"id", "createdAt", "title"} \subseteq DOMAIN call.updates
    /\ UpdatedRecord.title = call.updates.title
    /\ UpdatedRecord.id # call.updates.id
    /\ Len(call.before[call.list]) > 1

\* a delete operation was called on a collaboration
Deleted == call.op = "delete" /\ ~IsNull(call.collaboration)
\* the items of the list of the call, none when the collaboration has no such list
ListBefore == IF call.list \in DOMAIN call.before THEN call.before[call.list] ELSE <<>>
ListAfter ==
    IF call.list \in DOMAIN call.ret THEN arrays[call.ret[call.list].ref] ELSE <<>>

\* C27: deleteTask, deleteMilestone, deleteDocument and deleteNote return a
\* collaboration whose list holds exactly the items with an id different from
\* the given one, in their original order; every other field except updatedAt
\* is unchanged, and the list is unchanged when no item has the id.
C27_DeleteRemovesExactlyTheId ==
    Deleted
        => LET after == Contents(call.ret, arrays)
           IN  /\ ListAfter = SelectSeq(ListBefore, LAMBDA item : item.id # call.itemId)
               /\ (call.list \in DOMAIN after) = (call.list \in DOMAIN call.before)
               /\ \A f \in (DOMAIN call.before) \ {call.list, "updatedAt"} :
                     f \in DOMAIN after /\ after[f] = call.before[f]
               /\ (DOMAIN after) \ {"updatedAt"} = (DOMAIN call.before) \ {"updatedAt"}
               /\ (\A i \in 1..Len(ListBefore) : ListBefore[i].id # call.itemId)
                     => ListAfter = ListBefore

\* two items shared the id and both were removed; the other lists were kept
C27_Witness ==
    /\ Deleted
    /\ call.list = "milestones"
    /\ Len(ListBefore) = 2
    /\ ListBefore[1].id = call.itemId
    /\ ListBefore[2].id = call.itemId
    /\ ListAfter = <<>>
    /\ call.ret.updatedAt # call.before.updatedAt

\* the ids of the tasks of the collaboration, in the order of the tasks
TaskIds == [i \in 1..Len(arrays[collaboration.tasks.ref]) |->
               arrays[collaboration.tasks.ref][i].id]
PairwiseDistinct(ids) == \A i, j \in 1..Len(ids) : ids[i] = ids[j] => i = j

\* C30: after any sequence of addTask, updateTask and deleteTask calls that
\* starts from a collaboration without tasks, each call applied to the result
\* of the one before, the ids of the collaboration's tasks are pairwise
\* distinct.
C30_TaskIdsDistinct == PairwiseDistinct(TaskIds)

\* the file of an export was imported right after the export, and the user
\* confirmed
RoundTrip ==
    /\ call.op = "importData"
    /\ call.outcome = "imported"
    /\ ~IsNull(call.before)
    /\ call.file = JSONstringify(call.before)

\* the value v without its timestamps
RECURSIVE WithoutTimestamps(_)
WithoutTimestamps(v) ==
    IF IsArray(v) THEN Array([i \in 1..Len(v.array) |-> WithoutTimestamps(v.array[i])])
    ELSE IF "object" \in DOMAIN v
    THEN Obj([k \in (DOMAIN v.object) \ {"timestamp", "createdAt", "updatedAt"} |->
                 WithoutTimestamps(v.object[k])])
    ELSE v

\* C18: export followed by the import of the exported file, the user
\* confirming, leaves app.data as it was before the export, timestamps apart.
C18_ExportImportIsNoOp ==
    RoundTrip => WithoutTimestamps(appData) = WithoutTimestamps(call.before)

\* C18, amended: export followed by the import of the exported file leaves
\* every part of app.data but the activities as it was before the export; the
\* activities are the new activity 'Imported data' followed by the activities
\* from before the export, cut to the ten most recent.
C18_ExportImportLogsTheImport ==
    RoundTrip
        => LET before == call.before.object
               after == appData.object
               log == after.activities.array
               kept == Min(Len(before.activities.array), ActivityLimit - 1)
           IN  /\ DOMAIN after = DOMAIN before
               /\ \A k \in (DOMAIN before) \ {"activities"} : after[k] = before[k]
               /\ Len(log) = kept + 1
               /\ log[1].object.description = Str("Imported data")
               /\ SubSeq(log, 2, kept + 1) = SubSeq(before.activities.array, 1, kept)

\* a document with a profile and a full log went through export and import
C18_Witness ==
    /\ RoundTrip
    /\ ~IsNull(call.before.object.profile)
    /\ Len(call.before.object.activities.array) = ActivityLimit
    /\ Len(appData.object.activities.array) = ActivityLimit

\* findMostPromisingPartners was called with a list of partners
RankingCalled == call.op = "findMostPromisingPartners" /\ IsArray(call.partners)
\* the number of times e occurs in seq
Occurrences(seq, e) == Cardinality({i \in 1..Len(seq) : seq[i] = e})
\* the partner with the score of the brand of the call
Extended(p) == p @@ [compatibilityScore |-> calculateCompatibilityScore(call.brand, p)]
\* the entries are in non-increasing order of their scores
NonIncreasing(entries) ==
    \A i, j \in 1..Len(entries) :
        i < j => /\ entries[i].compatibilityScore.kind = "number"
                 /\ entries[j].compatibilityScore.kind = "number"
                 /\ entries[i].compatibilityScore.val >= entries[j].compatibilityScore.val

\* C19: findMostPromisingPartners returns at most limit entries (5 without a
\* limit), each a partner of the list with its compatibilityScore for the
\* brand, in non-increasing order of the score; no partner left out has a
\* higher score than one that is returned; the list is as it was.
C19_MostPromisingPartners ==
    RankingCalled
        => /\ call.ret.kind = "array"
           /\ Len(call.ret.val) <= (IF call.limit = <<>> THEN 5 ELSE call.limit[1])
           /\ LET all == [i \in 1..Len(call.partners.array) |->
                             Extended(call.partners.array[i])]
              IN  /\ \A i \in 1..Len(call.ret.val) :
                        Occurrences(call.ret.val, call.ret.val[i])
                            <= Occurrences(all, call.ret.val[i])
                  /\ \A i \in 1..Len(call.ret.val), j \in 1..Len(all) :
                        (Occurrences(call.ret.val, all[j]) < Occurrences(all, all[j]))
                            => /\ all[j].compatibilityScore.kind = "number"
                               /\ call.ret.val[i].compatibilityScore.kind = "number"
                               /\ all[j].compatibilityScore.val
                                      <= call.ret.val[i].compatibilityScore.val
           /\ NonIncreasing(call.ret.val)
           /\ partners = call.partners.array

RelatedCalled ==
    /\ call.op = "getRelatedResources"
    /\ IsArray(call.resources)
    /\ ~IsNull(call.resource)
RecommendedCalled ==
    /\ call.op = "getRecommendedResources"
    /\ IsArray(call.resources)
    /\ ~IsNull(call.profile)
\* the resource r has the property f with the value the object o has for it
Same(r, o, f) ==
    IF f \in DOMAIN r THEN f \in DOMAIN o /\ o[f] = r[f] ELSE f \notin DOMAIN o
\* the score of a catalog resource for the given resource
ClaimedRelatedScore(r) ==
    (IF Same(r, call.resource, "industry") THEN 2 ELSE 0)
    + (IF Same(r, call.resource, "partnershipType") THEN 2 ELSE 0)
    + (IF Same(r, call.resource, "type") THEN 1 ELSE 0)
\* the objectives mapped to a partnership type: none for a type that is not mapped
MappedObjectives(r) ==
    CASE "partnershipType" \notin DOMAIN r -> {}
      [] r.partnershipType = "co-branding" -> {"audience", "credibility"}
      [] r.partnershipType = "product" -> {"product", "innovation"}
      [] r.partnershipType = "content" -> {"content", "audience"}
      [] r.partnershipType = "distribution" -> {"sales"}
      [] r.partnershipType = "technology" -> {"innovation", "product"}
      [] r.partnershipType = "cause" -> {"credibility", "social"}
      [] OTHER -> {}
\* the score of a catalog resource for the profile
ClaimedRecommendedScore(r) ==
    (IF Same(r, call.profile, "industry") THEN 3 ELSE 0)
    + (IF /\ "partnership" \in DOMAIN call.profile
          /\ "objectives" \in DOMAIN call.profile.partnership
          /\ \E i \in 1..Len(call.profile.partnership.objectives) :
                call.profile.partnership.objectives[i] \in MappedObjectives(r)
       THEN 2 ELSE 0)
\* the result is the candidates with their scores, in non-increasing order of
\* the score, truncated to the limit
RankedAndTruncated(ret, candidates, limit) ==
    /\ ret.kind = "array"
    /\ Len(ret.val) = Min(limit, Len(candidates))
    /\ \A i \in 1..Len(ret.val) :
          Occurrences(ret.val, ret.val[i]) <= Occurrences(candidates, ret.val[i])
    /\ \A i, j \in 1..Len(ret.val) :
          i < j => ret.val[i].relevanceScore >= ret.val[j].relevanceScore
    /\ \A i \in 1..Len(ret.val), j \in 1..Len(candidates) :
          Occurrences(ret.val, candidates[j]) < Occurrences(candidates, candidates[j])
              => candidates[j].relevanceScore <= ret.val[i].relevanceScore

\* C20: getRelatedResources scores every resource of the catalog whose id is
\* not the given resource's with 2 for the same industry, 2 for the same
\* partnership type and 1 for the same type; getRecommendedResources scores
\* every resource with 3 for the industry of the profile and 2 when an
\* objective of the profile is among those mapped to the resource's
\* partnership type; both return the scored resources in non-increasing order
\* of the score, truncated to the limit (3 and 5 without one), and leave the
\* catalog as it was.
C20_RelatedAndRecommended ==
    /\ RelatedCalled
          => /\ RankedAndTruncated(
                    call.ret,
                    LET others == SelectSeq(call.resources.array,
                                            LAMBDA r : ~Same(r, call.resource, "id"))
                    IN  [i \in 1..Len(others) |->
                            others[i] @@ [relevanceScore |-> ClaimedRelatedScore(others[i])]],
                    IF call.limit = <<>> THEN 3 ELSE call.limit[1])
             /\ resources = call.resources.array
    /\ RecommendedCalled
          => /\ RankedAndTruncated(
                    call.ret,
                    [i \in 1..Len(call.resources.array) |->
                        call.resources.array[i]
                        @@ [relevanceScore |->
                               ClaimedRecommendedScore(call.resources.array[i])]],
                    IF call.limit = <<>> THEN 5 ELSE call.limit[1])
             /\ resources = call.resources.array
(***************************************************************************)
(* Symmetry of the compatibility scores (SpecSymmetry)                     *)
(***************************************************************************)
GeographyValues == {"local", "regional", "national", "international", "global"}
SizeValues == {"startup", "small", "medium", "large", "enterprise"}
\* the argument is one of the given values
OneOf(x, S) == x # <<>> /\ x[1] \in S
\* the argument is an array without duplicates
IsSet(x) == x # <<>> /\ NoDuplicates(x[1])

EnumSubScoresSymmetric ==
    /\ (call.op = "calculateGeographyScore" /\ OneOf(call.x, GeographyValues)
        /\ OneOf(call.y, GeographyValues))
          => call.ret = calculateGeographyScore(call.y, call.x)
    /\ (call.op = "calculateSizeScore" /\ OneOf(call.x, SizeValues)
        /\ OneOf(call.y, SizeValues))
          => call.ret = calculateSizeScore(call.y, call.x)
OverlapSubScoresSymmetric ==
    /\ (call.op = "calculateValuesScore" /\ IsSet(call.x) /\ IsSet(call.y))
          => call.ret = calculateValuesScore(call.y, call.x)
    /\ (call.op = "calculateObjectivesScore" /\ IsSet(call.x) /\ IsSet(call.y))
          => call.ret = calculateObjectivesScore(call.y, call.x)
ScoreSymmetric ==
    (ScoreCalled /\ HasSets(call.brand1) /\ HasSets(call.brand2)
     /\ Prop(call.brand1, "industry") = Prop(call.brand2, "industry"))
        => call.ret = calculateCompatibilityScore(call.brand2, call.brand1)

\* C21: the geography and size scores are the same in both orders for every
\* pair of values of their matrices, the values and objectives scores are the
\* same in both orders for arrays without duplicates, and the compatibility
\* score of two profiles with the same industry, their values and objectives
\* being arrays without duplicates, is the same in both orders.
C21_ScoresAreSymmetric ==
    /\ EnumSubScoresSymmetric
    /\ OverlapSubScoresSymmetric
    /\ ScoreSymmetric
(***************************************************************************)
(* Properties of the sample partner scores (SpecSamplePartners)            *)
(***************************************************************************)
SampleScoreCalled == call.op = "DataManager.calculateCompatibilityScore"
\* the part of a returned score that is not due to industry, geography,
\* values and objectives
SizeContribution ==
    call.ret.val
    - (IndustryPoints(call.brand1, call.brand2).val
       + GeographyPoints(call.brand1, call.brand2)
       + OverlapPoints(<<call.brand1.values>>, <<call.brand2.values>>, 8)
       + OverlapPoints(<<call.brand1.partnership.objectives>>,
                       <<call.brand2.partnership.objectives>>, 10))
\* a score was returned for a brand and a partner of the given sizes
Sizes(size1, size2) ==
    /\ SampleScoreCalled
    /\ call.ret.kind = "number"
    /\ call.brand1.companySize = size1
    /\ call.brand2.companySize = size2

MediumRowIncomplete ==
    /\ Sizes("medium", "small") => SizeContribution = 8
    /\ Sizes("small", "medium") => SizeContribution = 12
    /\ Sizes("medium", "enterprise") => SizeContribution = 0
    /\ Sizes("enterprise", "medium") => SizeContribution = 8
TotalClamped ==
    (SampleScoreCalled /\ call.ret.kind = "number")
        => call.ret.val >= 0 /\ call.ret.val <= 100

\* C22: with a medium brand and a small partner the size contribution to the
\* returned score is 8, with a small brand and a medium partner 12, with a
\* medium brand and an enterprise partner 0, with an enterprise brand and a
\* medium partner 8; every returned score is from 0 to 100.
C22_MediumRowAndClamp ==
    /\ MediumRowIncomplete
    /\ TotalClamped
C22_Witness ==
    /\ Sizes("medium", "enterprise")
    /\ SizeContribution = 0
    /\ call.ret.val > 0
(***************************************************************************)
(* Properties of the page and its handlers (SpecApp)                       *)
(***************************************************************************)
\* the application has started: a page load has run
Started == page.loads > 0
\* a handler that changed app.data has ended
HandlerChangedData ==
    /\ call.op \in {"saveProfile", "saveCollaboration", "saveCustomMetric",
                    "deleteCustomMetric", "updateTheme", "updateFontSize",
                    "updateCompactView", "clearData", "importData"}
    /\ appData # call.data

\* C23: once the application has started, after every handler the item in
\* localStorage is the text of {initialized: app.initialized, data: app.data}.
C23_StoredItemIsCurrent ==
    Started => storage = saveData(page.initialized, appData)

\* a collaboration was created and logged, and the item holds both
C23_Witness ==
    /\ Started
    /\ call.op = "saveCollaboration"
    /\ HandlerChangedData
    /\ ~call.thrown
    /\ Len(appData.object.collaborations.array) = 1
    /\ appData.object.activities.array[1].object.description
          = Str("Created collaboration: Launch")
    /\ JSONparse(storage).object.data = appData

\* the item in localStorage says the application is initialized
StoredInitialized ==
    storage # NoFile => JSONparse(storage).object.initialized = Bool(TRUE)

\* C25: a page load shows the welcome screen exactly when it finds no item in
\* localStorage; once a load has completed every item stored says initialized,
\* and no later load shows the welcome screen, whatever was cleared or imported
\* in between.
C25_WelcomeOnlyOnFirstVisit ==
    /\ call.op = "load" => (page.welcome <=> ~page.found)
    /\ Started => StoredInitialized
    /\ (call.op = "load" /\ page.loads > 1) => ~page.welcome

\* the page was loaded a second time after a file written by hand was
\* imported, it found the item and the welcome screen was not shown
C25_Witness ==
    /\ call.op = "load"
    /\ page.loads = 2
    /\ ~page.welcome
    /\ page.found
    /\ download = NoFile
    /\ appData # EmptyData
    /\ ~HasArray(appData, "collaborations")

\* the time of a timestamp the application wrote
TimeOf(timestamp) == CHOOSE t \in 1..MaxClock : Str(ISOString(t)) = timestamp
\* the activities of a document, none when it has no log
Activities(data) ==
    IF IsNull(data) \/ ~HasArray(data, "activities") THEN <<>>
    ELSE data.object.activities.array
NewestFirst(log) ==
    \A i, j \in 1..Len(log) :
        i < j => TimeOf(log[i].object.timestamp) >= TimeOf(log[j].object.timestamp)
\* a handler has logged its activity
ActivityLogged ==
    /\ call.op \in {"saveProfile", "saveCollaboration", "saveCustomMetric",
                    "deleteCustomMetric"}
    /\ ~call.thrown
    /\ appData # call.data
\* the new activity is at index 0, the others are shifted back by one and the
\* oldest is dropped when there were already ten
Unshifted(before, after) ==
    /\ Len(after) = Min(Len(before) + 1, ActivityLimit)
    /\ TimeOf(after[1].object.timestamp) = now - 1
    /\ \A i \in 2..Len(after) : after[i] = before[i - 1]

\* C26: the log of app.data never holds more than ten activities, it is
\* ordered newest first, and a handler that logs an activity puts it in front
\* of the others, dropping the oldest of ten.
C26_LogBoundedNewestFirst ==
    /\ Len(Activities(appData)) <= ActivityLimit
    /\ NewestFirst(Activities(appData))
    /\ ActivityLogged => Unshifted(Activities(call.data), Activities(appData))

\* the import ended with its error message
ImportFailed == call.op = "importData" /\ call.outcome = "error"

\* C28: when importData reports an error, app.data and the item in
\* localStorage are what they were before the import.
C28_FailedImportChangesNothing ==
    ImportFailed => appData = call.data /\ storage = call.item

(***************************************************************************)
(* Properties of the partner search (SpecSearch)                           *)
(***************************************************************************)
\* C24: the cards Find Matches shows are in non-increasing order of the
\* compatibility score, for every combination of filters.
C24_MatchesSortedByScore ==
    call.op = "searchPartners"
        => \A i, j \in 1..Len(call.shown) :
              i < j => call.shown[i].compatibilityScore >= call.shown[j].compatibilityScore
====
